---- MODULE Spec2Model ----
(***************************************************************************)
(* A model of the speed instrumentation library: the metric type system    *)
(* (src/metrics.go), the singleton / instance / counter value containers   *)
(* with their reader-writer lock and update hook (src/metrics.go), the     *)
(* instance domains (src/unnamed/part_000) and the generation protocol of  *)
(* the mapped region (modelled from the specification, section 4.6).       *)
(***************************************************************************)
EXTENDS Integers, Sequences, FiniteSets, TLC

(***************************************************************************)
(* Machine integers.  TLC's integers are 32 bits wide, Go's int, int64 and *)
(* uint64 are 64 bits wide, so a 64-bit word is kept as four 16-bit limbs, *)
(* most significant first, in two's complement; a 32-bit word as two.      *)
(***************************************************************************)
Limb == 2 ^ 16

HalfLimb == 2 ^ 15

\* the 64-bit two's complement word of a small integer n
W64(n) ==
  IF n >= 0
    THEN << 0, 0, n \div Limb, n % Limb >>
    ELSE LET m == -(n + 1)
         IN  << Limb - 1, Limb - 1, (Limb - 1) - (m \div Limb), (Limb - 1) - (m % Limb) >>

\* unsigned order of two words of the same length
RECURSIVE LtU(_, _)
LtU(x, y) ==
  IF x = << >> THEN FALSE
  ELSE IF Head(x) # Head(y) THEN Head(x) < Head(y)
  ELSE LtU(Tail(x), Tail(y))

LeU(x, y) == x = y \/ LtU(x, y)

IsNegW(x) == x[1] >= HalfLimb

\* signed (two's complement) order of two words of the same length
LeS(x, y) ==
  IF IsNegW(x) # IsNegW(y) THEN IsNegW(x) ELSE LeU(x, y)

\* x + y modulo 2^64 (Go's wrapping int64 addition), limb by limb
AddW(x, y) ==
  LET s4 == x[4] + y[4]
      s3 == x[3] + y[3] + (s4 \div Limb)
      s2 == x[2] + y[2] + (s3 \div Limb)
      s1 == x[1] + y[1] + (s2 \div Limb)
  IN  << s1 % Limb, s2 % Limb, s3 % Limb, s4 % Limb >>

\* the low 32 bits of a 64-bit word: Go's int32(v), uint32(v) conversions
Low32(x) == << x[3], x[4] >>

\* math.MinInt32, math.MaxInt32, math.MaxUint32 as 64-bit words (the source
\* compares them with an int64 / a uint)
MinInt32W == W64(-2147483647 - 1)

MaxInt32W == W64(2147483647)

MaxUint32W == << 0, 0, Limb - 1, Limb - 1 >>

(***************************************************************************)
(* MetricType, src/metrics.go:16-24.                                       *)
(***************************************************************************)
Int32Type == 0

Uint32Type == 1

Int64Type == 2

Uint64Type == 3

FloatType == 4

DoubleType == 5

StringType == 6

MetricTypes == { Int32Type, Uint32Type, Int64Type, Uint64Type, FloatType, DoubleType, StringType }

(***************************************************************************)
(* Units, src/metrics.go:136-191.  A unit is its family and its iota, the  *)
(* position in the const block of the family; PMAPI() is the 32-bit value  *)
(* the const block gives it.                                               *)
(***************************************************************************)
ByteUnit == [ family |-> "space", ordinal |-> 0 ]

KilobyteUnit == [ family |-> "space", ordinal |-> 1 ]

MegabyteUnit == [ family |-> "space", ordinal |-> 2 ]

GigabyteUnit == [ family |-> "space", ordinal |-> 3 ]

TerabyteUnit == [ family |-> "space", ordinal |-> 4 ]

PetabyteUnit == [ family |-> "space", ordinal |-> 5 ]

ExabyteUnit == [ family |-> "space", ordinal |-> 6 ]

NanosecondUnit == [ family |-> "time", ordinal |-> 0 ]

MicrosecondUnit == [ family |-> "time", ordinal |-> 1 ]

MillisecondUnit == [ family |-> "time", ordinal |-> 2 ]

SecondUnit == [ family |-> "time", ordinal |-> 3 ]

MinuteUnit == [ family |-> "time", ordinal |-> 4 ]

HourUnit == [ family |-> "time", ordinal |-> 5 ]

OneUnit == [ family |-> "count", ordinal |-> 0 ]

SpaceUnits ==
  { ByteUnit, KilobyteUnit, MegabyteUnit, GigabyteUnit, TerabyteUnit, PetabyteUnit, ExabyteUnit }

TimeUnits ==
  { NanosecondUnit, MicrosecondUnit, MillisecondUnit, SecondUnit, MinuteUnit, HourUnit }

CountUnits == { OneUnit }

Units == SpaceUnits \cup TimeUnits \cup CountUnits

\* Go's a | b on unsigned values
RECURSIVE BitOr(_, _)
BitOr(a, b) ==
  IF a = 0 THEN b
  ELSE IF b = 0 THEN a
  ELSE 2 * BitOr(a \div 2, b \div 2) + (IF a % 2 = 1 \/ b % 2 = 1 THEN 1 ELSE 0)

\* Go's a << n
Shl(a, n) == a * 2 ^ n

\* variant of PMAPI: the const blocks without tag and shift, the unit is its
\* iota (as the blocks of src/unnamed/part_000:97-135 are)
PMAPIOrdinal(unit) == unit.ordinal

\* lines 141-147, 164-169 and 184: 1<<28 | iota<<16, 1<<24 | iota<<12,
\* 1<<20 | iota<<8
PMAPI(unit) ==
  CASE unit.family = "space" -> BitOr(Shl(1, 28), Shl(unit.ordinal, 16))
    [] unit.family = "time"  -> BitOr(Shl(1, 24), Shl(unit.ordinal, 12))
    [] unit.family = "count" -> BitOr(Shl(1, 20), Shl(unit.ordinal, 8))

(***************************************************************************)
(* A Go interface{} value is a record [k |-> dynamic type, v |-> payload]. *)
(* Integer payloads are words; a float payload is one of a few named       *)
(* IEEE values; a string payload is a string.                              *)
(***************************************************************************)
Iface(kind, payload) == [ k |-> kind, v |-> payload ]

\* float64 values within [-MaxFloat32, MaxFloat32]
F64InRange == { "0", "1", "0.1" }

\* float32(x) for a float64 x: exact values stay, 0.1 rounds to the nearest
\* float32, a finite value beyond MaxFloat32 becomes +Inf
ToFloat32(x) ==
  CASE x = "0.1"  -> "0.1f"
    [] x = "1e39" -> "+Inf"
    [] OTHER      -> x

\* Go's == on two interface values: same dynamic type, equal payloads, and
\* a floating-point NaN is not equal to itself
IfaceEq(a, b) ==
  /\ a.k = b.k
  /\ a.v = b.v
  /\ ~(a.k \in { "float32", "float64" } /\ a.v = "NaN")

\* variant of isCompatibleInt: line 35 without v >= 0
isCompatibleIntNoSign(m, val) ==
  LET v == val
  IN  CASE m = Int32Type  -> LeS(MinInt32W, v) /\ LeS(v, MaxInt32W)
        [] m = Int64Type  -> TRUE
        [] m = Uint32Type -> LeS(v, MaxUint32W)
        [] m = Uint64Type -> LeS(W64(0), v)
        [] OTHER          -> FALSE

isCompatibleInt(m, val) ==
  LET v == val
  IN  CASE m = Int32Type  -> LeS(MinInt32W, v) /\ LeS(v, MaxInt32W)
        [] m = Int64Type  -> TRUE
        [] m = Uint32Type -> LeS(W64(0), v) /\ LeS(v, MaxUint32W)
        [] m = Uint64Type -> LeS(W64(0), v)
        [] OTHER          -> FALSE

isCompatibleUint(m, val) ==
  IF LeU(val, MaxUint32W)
    THEN m = Uint32Type \/ m = Uint64Type
    ELSE m = Uint64Type

isCompatibleFloat(m, val) ==
  IF val \in F64InRange
    THEN m = FloatType \/ m = DoubleType
    ELSE m = DoubleType

IsCompatible(m, val) ==
  CASE val.k = "int"     -> isCompatibleInt(m, val.v)
    [] val.k = "int32"   -> m = Int32Type
    [] val.k = "int64"   -> m = Int64Type
    [] val.k = "uint"    -> isCompatibleUint(m, val.v)
    [] val.k = "uint32"  -> m = Uint32Type
    [] val.k = "uint64"  -> m = Uint64Type
    [] val.k = "float32" -> m = FloatType
    [] val.k = "float64" -> isCompatibleFloat(m, val.v)
    [] val.k = "string"  -> m = StringType
    [] OTHER             -> FALSE

\* variant of resolveInt: the Int64Type case of lines 90-91 is left out
resolveIntNoInt64(m, val) ==
  IF val.k = "int"
    THEN CASE m = Uint32Type -> Iface("uint32", Low32(val.v))
           [] m = Uint64Type -> Iface("uint64", val.v)
           [] OTHER          -> Iface("int32", Low32(val.v))
  ELSE IF val.k = "uint"
    THEN IF m = Uint64Type
           THEN Iface("uint64", val.v)
           ELSE Iface("uint32", Low32(val.v))
  ELSE val

\* variant of resolveInt: line 93 returns uint(vi) for uint32(vi)
resolveIntToUint(m, val) ==
  IF val.k = "int"
    THEN CASE m = Int64Type  -> Iface("int64", val.v)
           [] m = Uint32Type -> Iface("uint", val.v)
           [] m = Uint64Type -> Iface("uint64", val.v)
           [] OTHER          -> Iface("int32", Low32(val.v))
  ELSE IF val.k = "uint"
    THEN IF m = Uint64Type
           THEN Iface("uint64", val.v)
           ELSE Iface("uint32", Low32(val.v))
  ELSE val

resolveInt(m, val) ==
  IF val.k = "int"
    THEN CASE m = Int64Type  -> Iface("int64", val.v)
           [] m = Uint32Type -> Iface("uint32", Low32(val.v))
           [] m = Uint64Type -> Iface("uint64", val.v)
           [] OTHER          -> Iface("int32", Low32(val.v))
  ELSE IF val.k = "uint"
    THEN IF m = Uint64Type
           THEN Iface("uint64", val.v)
           ELSE Iface("uint32", Low32(val.v))
  ELSE val

resolveFloat(m, val) ==
  IF val.k = "float64" /\ m = FloatType
    THEN Iface("float32", ToFloat32(val.v))
    ELSE val

resolve(m, val) == resolveFloat(m, resolveInt(m, val))

(***************************************************************************)
(* State.                                                                  *)
(***************************************************************************)
VARIABLES
  kind,       \* which container is under test: "singleton", "instance", "counter"
  mt,         \* PCPMetricDesc.t of the metric
  val,        \* PCPSingletonMetric.val
  update,     \* PCPSingletonMetric.update # nil
  vals,       \* PCPInstanceMetric.vals: instance name -> [val, update]
  indom,      \* the instance names of PCPInstanceMetric.indom
  mu,         \* the metric's embedded sync.RWMutex: [w |-> writer, r |-> readers]
  buf,        \* the bytewriter's buffer at each value offset
  hookCalls,  \* number of calls of an update closure so far
  pc,         \* the position of each caller
  arg,        \* each caller's local val (resolved)
  inst,       \* each caller's local instance
  ret,        \* what each caller's last call returned: [err, val]
  ops,        \* number of calls made so far
  v0,         \* the value the counter was created with
  hookFailed, \* a call of an update closure has returned an error
  call,       \* each caller's call: [must, delta], a Must* variant, the counter increment
  made,       \* the instanceDomains map has been made (it is nil before)
  instanceDomains, \* the process-wide table: hash -> InstanceDomain
  started,    \* the region has been started
  lastRet,    \* the result of the last NewInstanceDomain / AddInstance call
  firstDom,   \* name -> the domain the first NewInstanceDomain(name) returned
  panicked,   \* the process died of a run-time panic
  nops,       \* number of instance-domain operations so far
  gen1, gen2, \* the generation counters of the region header
  cells,      \* the structural part of the region: cell -> build that wrote it
  wpc,        \* the writer's position in the build phase
  rpc,        \* the reader's position
  rgen,       \* the gen1 the reader cached at the start of its read
  rsnap,      \* what the reader has read so far: cell -> build
  rstrict,    \* the reader also checks gen1 = gen2 before it reads
  rnext,      \* the next cell the reader reads
  reads,      \* number of reads the reader has begun
  raccepted,  \* number of snapshots the reader accepted
  rbad,       \* the reader accepted a snapshot that is not one whole build
  rmid,       \* the reader read a cell of this snapshot while gen1 # gen2
  rlast,      \* how the reader's last read ended: "none", "accepted", "discarded"
  newVals,    \* the Instances map NewPCPInstanceMetric was called with
  newName,    \* the metric name it was called with
  newDesc,    \* the number of description strings it was called with
  newType,    \* the MetricType it was called with
  newRet,     \* the error it returned, "none" before the call
  fnType,     \* the MetricType a type-system function is called on
  fnIn,       \* the value it is called with
  fnCompat,   \* fnType.IsCompatible(fnIn), once called
  fnOut,      \* fnType.resolve(fnIn), once called
  fnOut2,     \* fnType.resolve(fnOut), once called
  fnPc,       \* how many of these calls have been made
  unitA, unitB, \* two units
  encA, encB  \* their PMAPI() encodings, once called

metricVars == << kind, mt, val, update, vals, indom, mu, buf, hookCalls, pc, arg, inst, ret, ops, v0, hookFailed, call >>

indomVars == << made, instanceDomains, started, lastRet, firstDom, panicked, nops >>

genVars == << gen1, gen2, cells, wpc, rpc, rgen, rsnap, rstrict, rnext, reads, raccepted, rbad, rmid, rlast >>

callVars == << newVals, newName, newDesc, newType, newRet, fnType, fnIn, fnCompat, fnOut, fnOut2, fnPc, unitA, unitB, encA, encB >>

vars == << metricVars, indomVars, genVars, callVars >>

(***************************************************************************)
(* Bounds and inputs.                                                      *)
(***************************************************************************)
NumThreads == 2

MaxOps == 2

Threads == 1..NumThreads

NoThread == 0

\* the values callers pass to Set / SetInstance and to the constructors
Inputs ==
  { Iface("int", W64(1)), Iface("int", W64(2)), Iface("int", << 0, 0, HalfLimb, 0 >>),
    Iface("int32", Low32(W64(1))),
    Iface("float64", "1"), Iface("float64", "NaN"), Iface("float32", "1"),
    Iface("string", "a"), Iface("string", "b") }

\* the instance names callers pass; "z" is in no domain
InstNames == { "x", "y", "z" }

NoVal == Iface("nil", "nil")

NoName == "none"

\* no unit chosen
NoUnit == [ family |-> "none", ordinal |-> 0 ]

\* a string slot after writer.MustWrite(make([]byte, StringLength), offset)
Zeroed == Iface("zero", "zero")

Result(e, v) == [ err |-> e, val |-> v ]

Ok == Result("nil", NoVal)

Pending == Result("pending", NoVal)

(***************************************************************************)
(* sync.RWMutex: Lock waits for the writer and all readers to leave,       *)
(* RLock for the writer.                                                   *)
(***************************************************************************)
Unlocked == [ w |-> NoThread, r |-> {} ]

\* a call that is no Must* variant and adds nothing to a counter
Plain == [ must |-> FALSE, delta |-> 0 ]

CanLock(m) == m.w = NoThread /\ m.r = {}

CanRLock(m) == m.w = NoThread

\* indom.HasInstance(name)
HasInstance(name) == name \in indom

\* a call of Set, SetInstance or Inc returns to its caller: to MustSet,
\* MustSetInstance, MustInc or MustDec, which look at the error next, or to
\* the application
ReturnTo(th) == IF call[th].must THEN "Must_err" ELSE "idle"

\* a call returns r: the caller's locals are gone
Returns(th, r) ==
  /\ pc' = [pc EXCEPT ![th] = ReturnTo(th)]
  /\ ret' = [ret EXCEPT ![th] = r]
  /\ arg' = [arg EXCEPT ![th] = NoVal]
  /\ inst' = [inst EXCEPT ![th] = NoName]

\* m.vals[instance] has no slot for the name: the map yields a nil
\* *instanceValue and the read of its val field is a run-time panic
HasSlot(name) == name \in DOMAIN vals

\* a panic of the caller's goroutine.  Nothing in the package recovers it:
\* either a deferred recover of the application ends the caller's call, or
\* the Go runtime ends the process and no goroutine takes another step
Panic(th) ==
  \/ pc' = [pc EXCEPT ![th] = "panic"]
  \/ pc' = [t \in Threads |-> "exit"]

Panics(th) ==
  /\ Panic(th)
  /\ ret' = [ret EXCEPT ![th] = Result("nil pointer dereference", NoVal)]
  /\ arg' = [arg EXCEPT ![th] = NoVal]
  /\ inst' = [inst EXCEPT ![th] = NoName]

(***************************************************************************)
(* PCPSingletonMetric.Val, src/metrics.go:430-435.                         *)
(***************************************************************************)
ValRLock(th) ==
  /\ kind = "singleton" /\ pc[th] = "idle" /\ ops < MaxOps
  /\ CanRLock(mu)
  /\ mu' = [mu EXCEPT !.r = @ \cup {th}]
  /\ pc' = [pc EXCEPT ![th] = "Val_read"]
  /\ ret' = [ret EXCEPT ![th] = Pending]
  /\ ops' = ops + 1
  /\ UNCHANGED << kind, mt, val, update, vals, indom, buf, hookCalls, arg, inst, v0, hookFailed, call >>
  /\ UNCHANGED << indomVars, genVars, callVars >>

ValRead(th) ==
  /\ pc[th] = "Val_read"
  /\ mu' = [mu EXCEPT !.r = @ \ {th}]
  /\ Returns(th, Result("nil", val))
  /\ UNCHANGED << kind, mt, val, update, vals, indom, buf, hookCalls, ops, v0, hookFailed, call >>
  /\ UNCHANGED << indomVars, genVars, callVars >>

(***************************************************************************)
(* PCPMetric, src/unnamed/part_000:205-234: the metric of the earlier form *)
(* of the package.  It stores whatever value it is given: Set makes no     *)
(* test against the type of the description, resolves nothing and has no   *)
(* update closure.  The comparison of line 228 is made before the lock is  *)
(* taken.                                                                  *)
(***************************************************************************)
\* lines 220-224: m.RLock()
PCPMetricVal(th) ==
  /\ kind = "pcpmetric" /\ pc[th] = "idle" /\ ops < MaxOps
  /\ CanRLock(mu)
  /\ mu' = [mu EXCEPT !.r = @ \cup {th}]
  /\ pc' = [pc EXCEPT ![th] = "PCPMetricVal_read"]
  /\ ret' = [ret EXCEPT ![th] = Pending]
  /\ ops' = ops + 1
  /\ UNCHANGED << kind, mt, val, update, vals, indom, buf, hookCalls, arg, inst, v0, hookFailed, call >>
  /\ UNCHANGED << indomVars, genVars, callVars >>

\* return m.val and the deferred m.RUnlock()
PCPMetricValRead(th) ==
  /\ pc[th] = "PCPMetricVal_read"
  /\ mu' = [mu EXCEPT !.r = @ \ {th}]
  /\ Returns(th, Result("nil", val))
  /\ UNCHANGED << kind, mt, val, update, vals, indom, buf, hookCalls, ops, v0, hookFailed, call >>
  /\ UNCHANGED << indomVars, genVars, callVars >>

\* line 228: if val != m.val, on any value; otherwise return nil
PCPMetricSet(th, input) ==
  /\ kind = "pcpmetric" /\ pc[th] = "idle" /\ ops < MaxOps
  /\ IF ~IfaceEq(input, val)
       THEN /\ pc' = [pc EXCEPT ![th] = "PCPMetricSet_Lock"]
            /\ ret' = [ret EXCEPT ![th] = Pending]
            /\ arg' = [arg EXCEPT ![th] = input]
            /\ inst' = inst
       ELSE Returns(th, Ok)
  /\ ops' = ops + 1
  /\ UNCHANGED << kind, mt, val, update, vals, indom, mu, buf, hookCalls, v0, hookFailed, call >>
  /\ UNCHANGED << indomVars, genVars, callVars >>

\* line 229: m.Lock()
PCPMetricSetLock(th) ==
  /\ pc[th] = "PCPMetricSet_Lock"
  /\ CanLock(mu)
  /\ mu' = [mu EXCEPT !.w = th]
  /\ pc' = [pc EXCEPT ![th] = "PCPMetricSet_store"]
  /\ UNCHANGED << kind, mt, val, update, vals, indom, buf, hookCalls, arg, inst, ret, ops, v0, hookFailed, call >>
  /\ UNCHANGED << indomVars, genVars, callVars >>

\* line 231: m.val = val
PCPMetricSetStore(th) ==
  /\ pc[th] = "PCPMetricSet_store"
  /\ val' = arg[th]
  /\ pc' = [pc EXCEPT ![th] = "PCPMetricSet_Unlock"]
  /\ UNCHANGED << kind, mt, update, vals, indom, mu, buf, hookCalls, arg, inst, ret, ops, v0, hookFailed, call >>
  /\ UNCHANGED << indomVars, genVars, callVars >>

\* the deferred m.Unlock() of line 230 and return nil
PCPMetricSetUnlock(th) ==
  /\ pc[th] = "PCPMetricSet_Unlock"
  /\ mu' = [mu EXCEPT !.w = NoThread]
  /\ Returns(th, Ok)
  /\ UNCHANGED << kind, mt, val, update, vals, indom, buf, hookCalls, ops, v0, hookFailed, call >>
  /\ UNCHANGED << indomVars, genVars, callVars >>

(***************************************************************************)
(* PCPSingletonMetric.Set, src/metrics.go:438-458.  The comparison with    *)
(* m.val of line 445 is made before the lock is taken.                     *)
(***************************************************************************)
\* mutant of SetEnter: the comparison of line 445 is left out
SetEnterNoCompare(th, input) ==
  IF ~IsCompatible(mt, input)
    THEN Returns(th, Result("IncompatibleType", NoVal))
    ELSE /\ pc' = [pc EXCEPT ![th] = "Set_Lock"]
         /\ ret' = [ret EXCEPT ![th] = Pending]
         /\ arg' = [arg EXCEPT ![th] = resolveFloat(mt, resolveInt(mt, input))]
         /\ inst' = inst

\* mutant of SetEnter: the compatibility check of lines 439-441 is left out
SetEnterNoCheck(th, input) ==
  LET r == resolveFloat(mt, resolveInt(mt, input))
  IN  IF ~IfaceEq(r, val)
        THEN /\ pc' = [pc EXCEPT ![th] = "Set_Lock"]
             /\ ret' = [ret EXCEPT ![th] = Pending]
             /\ arg' = [arg EXCEPT ![th] = r]
             /\ inst' = inst
        ELSE Returns(th, Ok)

\* lines 439-445 and 457: the checks made before m.Lock()
SetEnter(th, input) ==
  IF ~IsCompatible(mt, input)
    THEN Returns(th, Result("IncompatibleType", NoVal))
    ELSE LET r == resolveFloat(mt, resolveInt(mt, input))
         IN  IF ~IfaceEq(r, val)
               THEN /\ pc' = [pc EXCEPT ![th] = "Set_Lock"]
                    /\ ret' = [ret EXCEPT ![th] = Pending]
                    /\ arg' = [arg EXCEPT ![th] = r]
                    /\ inst' = inst
               ELSE Returns(th, Ok)

Set(th, input) ==
  /\ kind = "singleton" /\ pc[th] = "idle" /\ ops < MaxOps
  /\ SetEnter(th, input)
  /\ ops' = ops + 1
  /\ UNCHANGED << kind, mt, val, update, vals, indom, mu, buf, hookCalls, v0, hookFailed, call >>
  /\ UNCHANGED << indomVars, genVars, callVars >>

\* mutant of SetLock: m.RLock() in place of m.Lock()
SetLockShared(th) ==
  /\ pc[th] = "Set_Lock"
  /\ CanRLock(mu)
  /\ mu' = [mu EXCEPT !.r = @ \cup {th}]
  /\ pc' = [pc EXCEPT ![th] = "Set_update"]
  /\ UNCHANGED << kind, mt, val, update, vals, indom, buf, hookCalls, arg, inst, ret, ops, v0, hookFailed, call >>
  /\ UNCHANGED << indomVars, genVars, callVars >>

\* line 446
SetLock(th) ==
  /\ pc[th] = "Set_Lock"
  /\ CanLock(mu)
  /\ mu' = [mu EXCEPT !.w = th]
  /\ pc' = [pc EXCEPT ![th] = "Set_update"]
  /\ UNCHANGED << kind, mt, val, update, vals, indom, buf, hookCalls, arg, inst, ret, ops, v0, hookFailed, call >>
  /\ UNCHANGED << indomVars, genVars, callVars >>

\* mutant of SetUpdate: m.val is assigned before the closure is called
SetUpdateCommitFirst(th) ==
  /\ pc[th] = "Set_update"
  /\ val' = arg[th]
  /\ IF update
       THEN /\ hookCalls' = hookCalls + 1
            /\ buf' = IF arg[th].k = "string" THEN [buf EXCEPT !["val"] = Zeroed] ELSE buf
            /\ pc' = [pc EXCEPT ![th] = "Set_WriteVal"]
       ELSE /\ pc' = [pc EXCEPT ![th] = "Set_commit"]
            /\ UNCHANGED << hookCalls, buf >>
  /\ UNCHANGED << kind, mt, update, vals, indom, mu, arg, inst, ret, ops, v0, hookFailed, call >>
  /\ UNCHANGED << indomVars, genVars, callVars >>

\* lines 448-449 and 387-390: the closure is entered; a string slot is
\* zero-padded before the value is written
SetUpdate(th) ==
  /\ pc[th] = "Set_update"
  /\ IF update
       THEN /\ hookCalls' = hookCalls + 1
            /\ buf' = IF arg[th].k = "string" THEN [buf EXCEPT !["val"] = Zeroed] ELSE buf
            /\ pc' = [pc EXCEPT ![th] = "Set_WriteVal"]
       ELSE /\ pc' = [pc EXCEPT ![th] = "Set_commit"]
            /\ UNCHANGED << hookCalls, buf >>
  /\ UNCHANGED << kind, mt, val, update, vals, indom, mu, arg, inst, ret, ops, v0, hookFailed, call >>
  /\ UNCHANGED << indomVars, genVars, callVars >>

\* variant of SetWriteVal: the error of the closure is returned without the
\* deferred m.Unlock() of line 447
SetWriteValNoUnlock(th) ==
  /\ pc[th] = "Set_WriteVal"
  /\ \/ /\ buf' = [buf EXCEPT !["val"] = arg[th]]
        /\ pc' = [pc EXCEPT ![th] = "Set_commit"]
        /\ UNCHANGED << ret, arg, inst, hookFailed, call >>
     \/ /\ buf' = buf
        /\ hookFailed' = TRUE
        /\ Returns(th, Result("WriteError", NoVal))
  /\ UNCHANGED << kind, mt, val, update, vals, indom, mu, hookCalls, ops, v0, call >>
  /\ UNCHANGED << indomVars, genVars, callVars >>

\* lines 392-393 and 450-452: writer.WriteVal succeeds or returns an error
SetWriteVal(th) ==
  /\ pc[th] = "Set_WriteVal"
  /\ \/ /\ buf' = [buf EXCEPT !["val"] = arg[th]]
        /\ pc' = [pc EXCEPT ![th] = "Set_commit"]
        /\ ret' = ret
        /\ hookFailed' = hookFailed
     \/ /\ buf' = buf
        /\ pc' = [pc EXCEPT ![th] = "Set_Unlock"]
        /\ ret' = [ret EXCEPT ![th] = Result("WriteError", NoVal)]
        /\ hookFailed' = TRUE
  /\ UNCHANGED << kind, mt, val, update, vals, indom, mu, hookCalls, arg, inst, ops, v0, call >>
  /\ UNCHANGED << indomVars, genVars, callVars >>

\* variant of SetCommit: the assignment m.val = val of line 454 is left out
SetCommitNoStore(th) ==
  /\ pc[th] = "Set_commit"
  /\ val' = val
  /\ pc' = [pc EXCEPT ![th] = "Set_Unlock"]
  /\ ret' = [ret EXCEPT ![th] = Ok]
  /\ UNCHANGED << kind, mt, update, vals, indom, mu, buf, hookCalls, arg, inst, ops, v0, hookFailed, call >>
  /\ UNCHANGED << indomVars, genVars, callVars >>

\* line 454
SetCommit(th) ==
  /\ pc[th] = "Set_commit"
  /\ val' = arg[th]
  /\ pc' = [pc EXCEPT ![th] = "Set_Unlock"]
  /\ ret' = [ret EXCEPT ![th] = Ok]
  /\ UNCHANGED << kind, mt, update, vals, indom, mu, buf, hookCalls, arg, inst, ops, v0, hookFailed, call >>
  /\ UNCHANGED << indomVars, genVars, callVars >>

\* the deferred m.Unlock() of line 447, and the return
SetUnlock(th) ==
  /\ pc[th] = "Set_Unlock"
  /\ mu' = [mu EXCEPT !.w = NoThread]
  /\ Returns(th, ret[th])
  /\ UNCHANGED << kind, mt, val, update, vals, indom, buf, hookCalls, ops, v0, hookFailed, call >>
  /\ UNCHANGED << indomVars, genVars, callVars >>

(***************************************************************************)
(* PCPInstanceMetric.ValInstance, src/metrics.go:537-547.                  *)
(***************************************************************************)
\* lines 538-540: the membership check, made before m.RLock()
ValInstance(th, name) ==
  /\ kind = "instance" /\ pc[th] = "idle" /\ ops < MaxOps
  /\ IF ~HasInstance(name)
       THEN Returns(th, Result("UnknownInstance", NoVal))
       ELSE /\ pc' = [pc EXCEPT ![th] = "ValInstance_RLock"]
            /\ ret' = [ret EXCEPT ![th] = Pending]
            /\ inst' = [inst EXCEPT ![th] = name]
            /\ arg' = arg
  /\ ops' = ops + 1
  /\ UNCHANGED << kind, mt, val, update, vals, indom, mu, buf, hookCalls, v0, hookFailed, call >>
  /\ UNCHANGED << indomVars, genVars, callVars >>

\* line 542
ValInstanceRLock(th) ==
  /\ pc[th] = "ValInstance_RLock"
  /\ CanRLock(mu)
  /\ mu' = [mu EXCEPT !.r = @ \cup {th}]
  /\ pc' = [pc EXCEPT ![th] = "ValInstance_read"]
  /\ UNCHANGED << kind, mt, val, update, vals, indom, buf, hookCalls, arg, inst, ret, ops, v0, hookFailed, call >>
  /\ UNCHANGED << indomVars, genVars, callVars >>

\* lines 543-546
ValInstanceRead(th) ==
  /\ pc[th] = "ValInstance_read"
  /\ mu' = [mu EXCEPT !.r = @ \ {th}]
  /\ IF HasSlot(inst[th])
       THEN Returns(th, Result("nil", vals[inst[th]].val))
       ELSE Panics(th)
  /\ UNCHANGED << kind, mt, val, update, vals, indom, buf, hookCalls, ops, v0, hookFailed, call >>
  /\ UNCHANGED << indomVars, genVars, callVars >>

(***************************************************************************)
(* PCPInstanceMetric.SetInstance, src/metrics.go:550-576.                  *)
(***************************************************************************)
\* variant of SetInstance: a name that is not in the domain is ignored
\* (return nil) instead of refused at lines 555-557
SetInstanceIgnoresUnknown(th, name, input) ==
  /\ kind = "instance" /\ pc[th] = "idle" /\ ops < MaxOps
  /\ IF ~IsCompatible(mt, input)
       THEN Returns(th, Result("IncompatibleType", NoVal))
       ELSE IF ~HasInstance(name)
         THEN Returns(th, Ok)
         ELSE LET r == resolveFloat(mt, resolveInt(mt, input))
              IN  IF ~IfaceEq(vals[name].val, r)
                    THEN /\ pc' = [pc EXCEPT ![th] = "SetInstance_Lock"]
                         /\ ret' = [ret EXCEPT ![th] = Pending]
                         /\ arg' = [arg EXCEPT ![th] = r]
                         /\ inst' = [inst EXCEPT ![th] = name]
                    ELSE Returns(th, Ok)
  /\ ops' = ops + 1
  /\ UNCHANGED << kind, mt, val, update, vals, indom, mu, buf, hookCalls, v0, hookFailed, call >>
  /\ UNCHANGED << indomVars, genVars, callVars >>

\* lines 551-561 and 575: the checks made before m.Lock()
SetInstanceEnter(th, name, input) ==
  IF ~IsCompatible(mt, input)
    THEN Returns(th, Result("IncompatibleType", NoVal))
    ELSE IF ~HasInstance(name)
      THEN Returns(th, Result("UnknownInstance", NoVal))
      ELSE IF ~HasSlot(name)
      THEN Panics(th)
      ELSE LET r == resolveFloat(mt, resolveInt(mt, input))
           IN  IF ~IfaceEq(vals[name].val, r)
                 THEN /\ pc' = [pc EXCEPT ![th] = "SetInstance_Lock"]
                      /\ ret' = [ret EXCEPT ![th] = Pending]
                      /\ arg' = [arg EXCEPT ![th] = r]
                      /\ inst' = [inst EXCEPT ![th] = name]
                 ELSE Returns(th, Ok)

SetInstance(th, name, input) ==
  /\ kind = "instance" /\ pc[th] = "idle" /\ ops < MaxOps
  /\ SetInstanceEnter(th, name, input)
  /\ ops' = ops + 1
  /\ UNCHANGED << kind, mt, val, update, vals, indom, mu, buf, hookCalls, v0, hookFailed, call >>
  /\ UNCHANGED << indomVars, genVars, callVars >>

\* line 562
SetInstanceLock(th) ==
  /\ pc[th] = "SetInstance_Lock"
  /\ CanLock(mu)
  /\ mu' = [mu EXCEPT !.w = th]
  /\ pc' = [pc EXCEPT ![th] = "SetInstance_update"]
  /\ UNCHANGED << kind, mt, val, update, vals, indom, buf, hookCalls, arg, inst, ret, ops, v0, hookFailed, call >>
  /\ UNCHANGED << indomVars, genVars, callVars >>

\* lines 565-566 and 387-390
SetInstanceUpdate(th) ==
  /\ pc[th] = "SetInstance_update"
  /\ IF vals[inst[th]].update
       THEN /\ hookCalls' = hookCalls + 1
            /\ buf' = IF arg[th].k = "string" THEN [buf EXCEPT ![inst[th]] = Zeroed] ELSE buf
            /\ pc' = [pc EXCEPT ![th] = "SetInstance_WriteVal"]
       ELSE /\ pc' = [pc EXCEPT ![th] = "SetInstance_commit"]
            /\ UNCHANGED << hookCalls, buf >>
  /\ UNCHANGED << kind, mt, val, update, vals, indom, mu, arg, inst, ret, ops, v0, hookFailed, call >>
  /\ UNCHANGED << indomVars, genVars, callVars >>

\* lines 392-393 and 567-569
SetInstanceWriteVal(th) ==
  /\ pc[th] = "SetInstance_WriteVal"
  /\ \/ /\ buf' = [buf EXCEPT ![inst[th]] = arg[th]]
        /\ pc' = [pc EXCEPT ![th] = "SetInstance_commit"]
        /\ ret' = ret
        /\ hookFailed' = hookFailed
     \/ /\ buf' = buf
        /\ pc' = [pc EXCEPT ![th] = "SetInstance_Unlock"]
        /\ ret' = [ret EXCEPT ![th] = Result("WriteError", NoVal)]
        /\ hookFailed' = TRUE
  /\ UNCHANGED << kind, mt, val, update, vals, indom, mu, hookCalls, arg, inst, ops, v0, call >>
  /\ UNCHANGED << indomVars, genVars, callVars >>

\* variant of SetInstanceCommit: line 572 stores the value in every slot
SetInstanceCommitEverySlot(th) ==
  /\ pc[th] = "SetInstance_commit"
  /\ vals' = [n \in DOMAIN vals |-> [vals[n] EXCEPT !.val = arg[th]]]
  /\ pc' = [pc EXCEPT ![th] = "SetInstance_Unlock"]
  /\ ret' = [ret EXCEPT ![th] = Ok]
  /\ UNCHANGED << kind, mt, val, update, indom, mu, buf, hookCalls, arg, inst, ops, v0, hookFailed, call >>
  /\ UNCHANGED << indomVars, genVars, callVars >>

\* line 572
SetInstanceCommit(th) ==
  /\ pc[th] = "SetInstance_commit"
  /\ vals' = [vals EXCEPT ![inst[th]].val = arg[th]]
  /\ pc' = [pc EXCEPT ![th] = "SetInstance_Unlock"]
  /\ ret' = [ret EXCEPT ![th] = Ok]
  /\ UNCHANGED << kind, mt, val, update, indom, mu, buf, hookCalls, arg, inst, ops, v0, hookFailed, call >>
  /\ UNCHANGED << indomVars, genVars, callVars >>

\* the deferred m.Unlock() of line 563, and the return
SetInstanceUnlock(th) ==
  /\ pc[th] = "SetInstance_Unlock"
  /\ mu' = [mu EXCEPT !.w = NoThread]
  /\ Returns(th, ret[th])
  /\ UNCHANGED << kind, mt, val, update, vals, indom, buf, hookCalls, ops, v0, hookFailed, call >>
  /\ UNCHANGED << indomVars, genVars, callVars >>

(***************************************************************************)
(* NewPCPInstanceMetric, src/metrics.go:499-531.  The bound domain is the  *)
(* set of its instance names; the descriptor (newPCPMetricDesc) is taken   *)
(* to be built without error.                                              *)
(***************************************************************************)
\* indom.InstanceCount()
InstanceCount == Cardinality(indom)

\* the Instances maps callers pass: instance name -> value
InstancesMaps ==
  LET values == { Iface("int", W64(1)), Iface("int", << 0, 0, HalfLimb, 0 >>),
                  Iface("int32", Low32(W64(1))), Iface("float64", "0.1"), Iface("string", "a") }
  IN  UNION { [S -> values] : S \in SUBSET InstNames }

\* the names at which the loop of lines 511-522 returns an error
NotInitialized(vs) == { n \in indom : n \notin DOMAIN vs }

Incompatible(vs, t) == { n \in indom : n \in DOMAIN vs /\ ~IsCompatible(t, vs[n]) }

\* the metric of lines 525-530: every value resolved, every update nil
NewMetric(storedVals, t) ==
  /\ newRet' = "nil"
  /\ kind' = "instance" /\ mt' = t
  /\ vals' = [n \in indom |-> [ val |-> storedVals[n], update |-> FALSE ]]

\* a call that returns (nil, err)
NewFails(e) ==
  /\ newRet' = e
  /\ UNCHANGED << kind, mt, vals >>

\* the longest metric name: the length of a string block of the mapped
\* format (lines 327 and 389 use the constant, its definition is in a file
\* of the package outside src/)
StringLength == 256

RECURSIVE Repeat(_, _)
Repeat(s, n) == IF n = 0 THEN "" ELSE s \o Repeat(s, n - 1)

\* the metric names callers pass: the empty name, a name and a name of
\* StringLength + 1 characters
MetricNames == { "", "m", Repeat("n", StringLength + 1) }

\* the numbers of description strings callers pass
DescCounts == { 0, 2, 3 }

\* lines 322-350: the error of newPCPMetricDesc(n, t, s, u, desc...)
newPCPMetricDesc(n, ndesc) ==
  IF n = "" THEN "EmptyName"
  ELSE IF Len(n) > StringLength THEN "NameTooLong"
  ELSE IF ndesc > 2 THEN "TooManyDescriptions"
  ELSE "nil"

\* variant of NewPCPInstanceMetric: the presence test of lines 513-515 is
\* left out, a missing value is the nil interface
NewPCPInstanceMetricNoPresenceTest(vs, name, t, ndesc) ==
  /\ kind = "none" /\ newRet = "none"
  /\ newVals' = vs /\ newName' = name /\ newDesc' = ndesc /\ newType' = t
  /\ IF Cardinality(DOMAIN vs) # InstanceCount
       THEN NewFails("InstanceCountMismatch")
       ELSE IF newPCPMetricDesc(name, ndesc) # "nil"
                THEN NewFails(newPCPMetricDesc(name, ndesc))
                ELSE \/ \E n \in NotInitialized(vs) \cup Incompatible(vs, t) : NewFails("IncompatibleType")
                     \/ /\ NotInitialized(vs) = {} /\ Incompatible(vs, t) = {}
                        /\ NewMetric([n \in indom |-> resolve(t, vs[n])], t)
  /\ UNCHANGED << val, update, indom, mu, buf, hookCalls, pc, arg, inst, ret, ops, v0, hookFailed, call >>
  /\ UNCHANGED << fnType, fnIn, fnCompat, fnOut, fnOut2, fnPc, unitA, unitB, encA, encB >>
  /\ UNCHANGED << indomVars, genVars >>

\* variant of NewPCPInstanceMetric: line 521 (val = t.resolve(val)) is left out
NewPCPInstanceMetricNoResolve(vs, name, t, ndesc) ==
  /\ kind = "none" /\ newRet = "none"
  /\ newVals' = vs /\ newName' = name /\ newDesc' = ndesc /\ newType' = t
  /\ IF Cardinality(DOMAIN vs) # InstanceCount
       THEN NewFails("InstanceCountMismatch")
       ELSE IF newPCPMetricDesc(name, ndesc) # "nil"
                THEN NewFails(newPCPMetricDesc(name, ndesc))
                ELSE \/ \E n \in NotInitialized(vs) : NewFails("MissingInstanceValue")
                     \/ \E n \in Incompatible(vs, t) : NewFails("IncompatibleType")
                     \/ /\ NotInitialized(vs) = {} /\ Incompatible(vs, t) = {}
                        /\ NewMetric([n \in indom |-> vs[n]], t)
  /\ UNCHANGED << val, update, indom, mu, buf, hookCalls, pc, arg, inst, ret, ops, v0, hookFailed, call >>
  /\ UNCHANGED << fnType, fnIn, fnCompat, fnOut, fnOut2, fnPc, unitA, unitB, encA, encB >>
  /\ UNCHANGED << indomVars, genVars >>

\* lines 499-531: the count of lines 500-502, then the descriptor of lines
\* 504-507, then the loop of lines 511-522.  The loop ranges over a Go map,
\* in any order: it returns at whichever of the names without a value or
\* with an incompatible value it meets first.
NewPCPInstanceMetric(vs, name, t, ndesc) ==
  /\ kind = "none" /\ newRet = "none"
  /\ newVals' = vs /\ newName' = name /\ newDesc' = ndesc /\ newType' = t
  /\ IF Cardinality(DOMAIN vs) # InstanceCount
       THEN NewFails("InstanceCountMismatch")
       ELSE IF newPCPMetricDesc(name, ndesc) # "nil"
                THEN NewFails(newPCPMetricDesc(name, ndesc))
                ELSE \/ \E n \in NotInitialized(vs) : NewFails("MissingInstanceValue")
                     \/ \E n \in Incompatible(vs, t) : NewFails("IncompatibleType")
                     \/ /\ NotInitialized(vs) = {} /\ Incompatible(vs, t) = {}
                        /\ NewMetric([n \in indom |-> resolve(t, vs[n])], t)
  /\ UNCHANGED << val, update, indom, mu, buf, hookCalls, pc, arg, inst, ret, ops, v0, hookFailed, call >>
  /\ UNCHANGED << fnType, fnIn, fnCompat, fnOut, fnOut2, fnPc, unitA, unitB, encA, encB >>
  /\ UNCHANGED << indomVars, genVars >>

(***************************************************************************)
(* MustSet (src/metrics.go:461-465) and MustSetInstance (lines 579-583):   *)
(* the call of Set / SetInstance, and a panic when it returned an error.   *)
(***************************************************************************)
MustSet(th, input) ==
  /\ kind = "singleton" /\ pc[th] = "idle" /\ ops < MaxOps
  /\ pc' = [pc EXCEPT ![th] = "MustSet_Set"]
  /\ arg' = [arg EXCEPT ![th] = input]
  /\ ret' = [ret EXCEPT ![th] = Pending]
  /\ call' = [call EXCEPT ![th] = [ must |-> TRUE, delta |-> 0 ]]
  /\ ops' = ops + 1
  /\ UNCHANGED << kind, mt, val, update, vals, indom, mu, buf, hookCalls, inst, v0, hookFailed >>
  /\ UNCHANGED << indomVars, genVars, callVars >>

\* line 462: m.Set(val)
MustSetSet(th) ==
  /\ pc[th] = "MustSet_Set"
  /\ SetEnter(th, arg[th])
  /\ UNCHANGED << kind, mt, val, update, vals, indom, mu, buf, hookCalls, ops, v0, hookFailed, call >>
  /\ UNCHANGED << indomVars, genVars, callVars >>

MustSetInstance(th, name, input) ==
  /\ kind = "instance" /\ pc[th] = "idle" /\ ops < MaxOps
  /\ pc' = [pc EXCEPT ![th] = "MustSetInstance_SetInstance"]
  /\ arg' = [arg EXCEPT ![th] = input]
  /\ inst' = [inst EXCEPT ![th] = name]
  /\ ret' = [ret EXCEPT ![th] = Pending]
  /\ call' = [call EXCEPT ![th] = [ must |-> TRUE, delta |-> 0 ]]
  /\ ops' = ops + 1
  /\ UNCHANGED << kind, mt, val, update, vals, indom, mu, buf, hookCalls, v0, hookFailed >>
  /\ UNCHANGED << indomVars, genVars, callVars >>

\* line 580: m.SetInstance(instance, val)
MustSetInstanceSetInstance(th) ==
  /\ pc[th] = "MustSetInstance_SetInstance"
  /\ SetInstanceEnter(th, inst[th], arg[th])
  /\ UNCHANGED << kind, mt, val, update, vals, indom, mu, buf, hookCalls, ops, v0, hookFailed, call >>
  /\ UNCHANGED << indomVars, genVars, callVars >>

\* lines 462-464, 580-582, 621-623 and 631-633: if err != nil { panic(err) }
MustErr(th) ==
  /\ pc[th] = "Must_err"
  /\ IF ret[th].err # "nil"
       THEN Panic(th)
       ELSE pc' = [pc EXCEPT ![th] = "idle"]
  /\ call' = [call EXCEPT ![th].must = FALSE]
  /\ UNCHANGED << kind, mt, val, update, vals, indom, mu, buf, hookCalls, arg, inst, ret, ops, v0, hookFailed >>
  /\ UNCHANGED << indomVars, genVars, callVars >>

(***************************************************************************)
(* PCPCounter, src/metrics.go:588-640.  Inc(val) is c.Val() followed by    *)
(* c.Set(v + val) (lines 613-617); Dec(val) is Inc(-val) (line 627);       *)
(* MustInc and MustDec panic on the error (lines 620-624, 630-634); Up is  *)
(* MustInc(1) (line 637) and Down is MustDec(1) (line 640).                *)
(***************************************************************************)
\* the increments callers pass
Increments == { 1, 2 }

\* a caller enters Inc(n), from the application (must = FALSE) or from
\* MustInc / MustDec
IncEnter(th, n, must) ==
  /\ kind = "counter" /\ pc[th] = "start"
  /\ pc' = [pc EXCEPT ![th] = "Inc_Val"]
  /\ arg' = [arg EXCEPT ![th] = Iface("int64", W64(n))]
  /\ call' = [call EXCEPT ![th] = [ must |-> must, delta |-> n ]]
  /\ UNCHANGED << kind, mt, val, update, vals, indom, mu, buf, hookCalls, inst, ret, ops, v0, hookFailed >>
  /\ UNCHANGED << indomVars, genVars, callVars >>

\* line 613
Inc(th, n) == IncEnter(th, n, FALSE)

\* line 620
MustInc(th, n) == IncEnter(th, n, TRUE)

\* line 627: return c.Inc(-val)
Dec(th, n) == IncEnter(th, -n, FALSE)

\* line 630
MustDec(th, n) == IncEnter(th, -n, TRUE)

\* line 637
Up(th) == MustInc(th, 1)

\* line 640
Down(th) == MustDec(th, 1)

\* lines 603-605 and 614: c.Val() takes the read lock
IncRLock(th) ==
  /\ pc[th] = "Inc_Val"
  /\ CanRLock(mu)
  /\ mu' = [mu EXCEPT !.r = @ \cup {th}]
  /\ pc' = [pc EXCEPT ![th] = "Inc_read"]
  /\ UNCHANGED << kind, mt, val, update, vals, indom, buf, hookCalls, arg, inst, ret, ops, v0, hookFailed, call >>
  /\ UNCHANGED << indomVars, genVars, callVars >>

\* lines 614-615: v := c.Val(); v += val
IncRead(th) ==
  /\ pc[th] = "Inc_read"
  /\ mu' = [mu EXCEPT !.r = @ \ {th}]
  /\ arg' = [arg EXCEPT ![th] = Iface("int64", AddW(val.v, arg[th].v))]
  /\ pc' = [pc EXCEPT ![th] = "Inc_Set"]
  /\ UNCHANGED << kind, mt, val, update, vals, indom, buf, hookCalls, inst, ret, ops, v0, hookFailed, call >>
  /\ UNCHANGED << indomVars, genVars, callVars >>

\* line 616: return c.Set(v)
IncSet(th) ==
  /\ pc[th] = "Inc_Set"
  /\ SetEnter(th, arg[th])
  /\ UNCHANGED << kind, mt, val, update, vals, indom, mu, buf, hookCalls, ops, v0, hookFailed, call >>
  /\ UNCHANGED << indomVars, genVars, callVars >>

\* lines 608-610: PCPCounter.Set(val int64), called by the application
CounterSet(th, n) ==
  /\ kind = "counter" /\ pc[th] = "start"
  /\ SetEnter(th, Iface("int64", W64(n)))
  /\ UNCHANGED << kind, mt, val, update, vals, indom, mu, buf, hookCalls, ops, v0, hookFailed, call >>
  /\ UNCHANGED << indomVars, genVars, callVars >>

\* lines 603-605: PCPCounter.Val(), called by the application
CounterVal(th) ==
  /\ kind = "counter" /\ pc[th] = "start"
  /\ CanRLock(mu)
  /\ mu' = [mu EXCEPT !.r = @ \cup {th}]
  /\ pc' = [pc EXCEPT ![th] = "Val_read"]
  /\ UNCHANGED << kind, mt, val, update, vals, indom, buf, hookCalls, arg, inst, ret, ops, v0, hookFailed, call >>
  /\ UNCHANGED << indomVars, genVars, callVars >>

(***************************************************************************)
(* Instance domains, src/unnamed/part_000:6-54.                            *)
(***************************************************************************)
MaxIndomOps == 4

Names == { "disk", "cpu", "sda" }

HelpTexts == { "h1", "h2" }

\* getHash(name): a deterministic 32-bit id; distinct names may collide
getHash(name) ==
  CASE name = "disk" -> 7
    [] name = "cpu"  -> 9
    [] name = "sda"  -> 7
    [] name = "x"    -> 1
    [] name = "y"    -> 2
    [] name = "z"    -> 3

NoDom == 0

IndomResult(o, e, d) == [ op |-> o, err |-> e, dom |-> d ]

\* newInstance(id, name, indom)
newInstance(h, name, d) == [ id |-> h, name |-> name, indom |-> d ]

\* the assignment to instanceDomains at the beginning of monitoring that the
\* note of lines 13-15 asks for
MakeInstanceDomains ==
  /\ ~panicked /\ ~made /\ nops < MaxIndomOps
  /\ made' = TRUE
  /\ instanceDomains' = << >>
  /\ nops' = nops + 1
  /\ UNCHANGED << started, lastRet, firstDom, panicked >>
  /\ UNCHANGED << metricVars, genVars, callVars >>

\* mutant of NewInstanceDomain: the lookup of lines 24-27 is left out
NewInstanceDomainAlways(name, shortDescription, longDescription) ==
  /\ ~panicked /\ nops < MaxIndomOps
  /\ nops' = nops + 1
  /\ LET h == getHash(name)
     IN  IF ~made
           THEN /\ panicked' = TRUE
                /\ lastRet' = IndomResult("NewInstanceDomain", "panic", NoDom)
                /\ UNCHANGED << made, instanceDomains, started, firstDom >>
           ELSE /\ instanceDomains' =
                     [ k \in DOMAIN instanceDomains \cup {h} |->
                         IF k = h
                           THEN [ id |-> h, name |-> name, instances |-> << >>,
                                  shortHelpText |-> shortDescription,
                                  longHelpText |-> longDescription ]
                           ELSE instanceDomains[k] ]
                /\ lastRet' = IndomResult("NewInstanceDomain", "nil", h)
                /\ firstDom' = IF firstDom[name] = NoDom
                                 THEN [firstDom EXCEPT ![name] = h] ELSE firstDom
                /\ UNCHANGED << made, started, panicked >>
  /\ UNCHANGED << metricVars, genVars, callVars >>

\* lines 21-39; a write to a nil map is a run-time panic
NewInstanceDomain(name, shortDescription, longDescription) ==
  /\ ~panicked /\ nops < MaxIndomOps
  /\ nops' = nops + 1
  /\ LET h == getHash(name)
     IN  IF made /\ h \in DOMAIN instanceDomains
           THEN /\ lastRet' = IndomResult("NewInstanceDomain", "nil", h)
                /\ firstDom' = IF firstDom[name] = NoDom
                                 THEN [firstDom EXCEPT ![name] = h] ELSE firstDom
                /\ UNCHANGED << made, instanceDomains, started, panicked >>
           ELSE IF ~made
             THEN /\ panicked' = TRUE
                  /\ lastRet' = IndomResult("NewInstanceDomain", "panic", NoDom)
                  /\ UNCHANGED << made, instanceDomains, started, firstDom >>
             ELSE /\ instanceDomains' =
                       (h :> [ id |-> h, name |-> name, instances |-> << >>,
                               shortHelpText |-> shortDescription,
                               longHelpText |-> longDescription ]) @@ instanceDomains
                  /\ lastRet' = IndomResult("NewInstanceDomain", "nil", h)
                  /\ firstDom' = IF firstDom[name] = NoDom
                                   THEN [firstDom EXCEPT ![name] = h] ELSE firstDom
                  /\ UNCHANGED << made, started, panicked >>
  /\ UNCHANGED << metricVars, genVars, callVars >>

\* mutant of AddInstance: the lookup of lines 45-48 is left out
AddInstanceOverwrite(d, name) ==
  /\ ~panicked /\ nops < MaxIndomOps
  /\ made /\ d \in DOMAIN instanceDomains
  /\ nops' = nops + 1
  /\ LET h == getHash(name)
     IN  /\ instanceDomains' =
               [instanceDomains EXCEPT ![d].instances =
                  [ k \in DOMAIN @ \cup {h} |-> IF k = h THEN newInstance(h, name, d) ELSE @[k] ]]
         /\ lastRet' = IndomResult("AddInstance", "nil", d)
  /\ UNCHANGED << made, started, firstDom, panicked >>
  /\ UNCHANGED << metricVars, genVars, callVars >>

\* lines 42-54, on the domain NewInstanceDomain returned as d
AddInstance(d, name) ==
  /\ ~panicked /\ nops < MaxIndomOps
  /\ made /\ d \in DOMAIN instanceDomains
  /\ nops' = nops + 1
  /\ LET h == getHash(name)
     IN  IF h \in DOMAIN instanceDomains[d].instances
           THEN /\ lastRet' = IndomResult("AddInstance", "DuplicateInstance", d)
                /\ instanceDomains' = instanceDomains
           ELSE /\ instanceDomains' =
                     [instanceDomains EXCEPT ![d].instances = (h :> newInstance(h, name, d)) @@ @]
                /\ lastRet' = IndomResult("AddInstance", "nil", d)
  /\ UNCHANGED << made, started, firstDom, panicked >>
  /\ UNCHANGED << metricVars, genVars, callVars >>

\* the start of the region (specification, section 4.6): the one-time
\* transition from accepting registrations to serving live values
StartRegion ==
  /\ ~panicked /\ ~started /\ nops < MaxIndomOps
  /\ started' = TRUE
  /\ nops' = nops + 1
  /\ lastRet' = IndomResult("StartRegion", "nil", NoDom)
  /\ UNCHANGED << made, instanceDomains, firstDom, panicked >>
  /\ UNCHANGED << metricVars, genVars, callVars >>

(***************************************************************************)
(* The generation protocol of the mapped region (specification, section    *)
(* 4.6).  The writer's build phase: increment gen1, write every structural *)
(* cell, set gen2 = gen1.  The reader is another process: each of its      *)
(* reads of the region is a step of its own.                               *)
(***************************************************************************)
NumCells == 2

MaxBuilds == 2

MaxReads == 2

Cells == 1..NumCells

\* mutant of BuildBegin: gen1 is not incremented before the first write
BuildBeginNoIncrement ==
  /\ wpc = 0 /\ gen1 < MaxBuilds
  /\ wpc' = 1
  /\ UNCHANGED << gen1, gen2, cells, rpc, rgen, rsnap, rstrict, rnext, reads, raccepted, rbad, rmid, rlast >>
  /\ UNCHANGED << metricVars, indomVars, callVars >>

BuildBegin ==
  /\ wpc = 0 /\ gen1 < MaxBuilds
  /\ gen1' = gen1 + 1
  /\ wpc' = 1
  /\ UNCHANGED << gen2, cells, rpc, rgen, rsnap, rstrict, rnext, reads, raccepted, rbad, rmid, rlast >>
  /\ UNCHANGED << metricVars, indomVars, callVars >>

BuildWrite ==
  /\ wpc \in Cells
  /\ cells' = [cells EXCEPT ![wpc] = gen1]
  /\ wpc' = wpc + 1
  /\ UNCHANGED << gen1, gen2, rpc, rgen, rsnap, rstrict, rnext, reads, raccepted, rbad, rmid, rlast >>
  /\ UNCHANGED << metricVars, indomVars, callVars >>

BuildEnd ==
  /\ wpc = NumCells + 1
  /\ gen2' = gen1
  /\ wpc' = 0
  /\ UNCHANGED << gen1, cells, rpc, rgen, rsnap, rstrict, rnext, reads, raccepted, rbad, rmid, rlast >>
  /\ UNCHANGED << metricVars, indomVars, callVars >>

\* the reader caches the gen1 it sees at the start of its read
ReadBegin ==
  /\ rpc = "idle" /\ reads < MaxReads
  /\ reads' = reads + 1
  /\ rgen' = gen1
  /\ rnext' = 1
  /\ rpc' = IF rstrict THEN "begin2" ELSE "cell"
  /\ rmid' = FALSE /\ rlast' = "none"
  /\ UNCHANGED << gen1, gen2, cells, wpc, rsnap, rstrict, raccepted, rbad >>
  /\ UNCHANGED << metricVars, indomVars, callVars >>

\* a strict reader compares gen2 with the cached gen1 before it reads
ReadBegin2 ==
  /\ rpc = "begin2"
  /\ rpc' = IF gen2 = rgen THEN "cell" ELSE "idle"
  /\ rlast' = IF gen2 = rgen THEN rlast ELSE "discarded"
  /\ UNCHANGED << gen1, gen2, cells, wpc, rgen, rsnap, rstrict, rnext, reads, raccepted, rbad, rmid >>
  /\ UNCHANGED << metricVars, indomVars, callVars >>

ReadCell ==
  /\ rpc = "cell"
  /\ rsnap' = [rsnap EXCEPT ![rnext] = cells[rnext]]
  /\ rnext' = rnext + 1
  /\ rpc' = IF rnext = NumCells THEN "end1" ELSE "cell"
  /\ rmid' = (rmid \/ gen1 # gen2)
  /\ UNCHANGED << gen1, gen2, cells, wpc, rgen, rstrict, reads, raccepted, rbad, rlast >>
  /\ UNCHANGED << metricVars, indomVars, callVars >>

\* mutant of ReadEnd1: gen1 is not compared with the cached generation
ReadEnd1NoCheck ==
  /\ rpc = "end1"
  /\ rpc' = "end2"
  /\ UNCHANGED << gen1, gen2, cells, wpc, rgen, rsnap, rstrict, rnext, reads, raccepted, rbad, rmid, rlast >>
  /\ UNCHANGED << metricVars, indomVars, callVars >>

\* after its read: discard when gen1 differs from the cached generation
ReadEnd1 ==
  /\ rpc = "end1"
  /\ rpc' = IF gen1 = rgen THEN "end2" ELSE "idle"
  /\ rlast' = IF gen1 = rgen THEN rlast ELSE "discarded"
  /\ UNCHANGED << gen1, gen2, cells, wpc, rgen, rsnap, rstrict, rnext, reads, raccepted, rbad, rmid >>
  /\ UNCHANGED << metricVars, indomVars, callVars >>

\* a snapshot holds cells of two builds: one of them partially applied
Inconsistent(snap) == \E c, d \in Cells : snap[c] # snap[d]

\* discard when gen2 differs from it too (gen1 # gen2); accept otherwise
ReadEnd2 ==
  /\ rpc = "end2"
  /\ rpc' = "idle"
  /\ IF gen2 = rgen
       THEN /\ raccepted' = raccepted + 1
            /\ rbad' = (rbad \/ Inconsistent(rsnap))
            /\ rlast' = "accepted"
       ELSE /\ rlast' = "discarded"
            /\ UNCHANGED << raccepted, rbad >>
  /\ UNCHANGED << gen1, gen2, cells, wpc, rgen, rsnap, rstrict, rnext, reads, rmid >>
  /\ UNCHANGED << metricVars, indomVars, callVars >>

(***************************************************************************)
(* Initial states and specifications.                                      *)
(***************************************************************************)
MetricIdle ==
  /\ kind = "none" /\ mt = Int32Type /\ val = NoVal /\ update = FALSE
  /\ vals = << >> /\ indom = {} /\ mu = Unlocked /\ buf = << >>
  /\ hookCalls = 0 /\ ops = 0 /\ v0 = 0 /\ hookFailed = FALSE /\ call = [th \in Threads |-> Plain]
  /\ pc = [th \in Threads |-> "idle"]
  /\ arg = [th \in Threads |-> NoVal]
  /\ inst = [th \in Threads |-> NoName]
  /\ ret = [th \in Threads |-> Pending]

IndomIdle ==
  /\ made = FALSE /\ instanceDomains = << >> /\ started = FALSE
  /\ lastRet = IndomResult("none", "nil", NoDom)
  /\ firstDom = [n \in Names |-> NoDom]
  /\ panicked = FALSE /\ nops = 0

GenIdle ==
  /\ gen1 = 0 /\ gen2 = 0 /\ wpc = 0
  /\ cells = [c \in Cells |-> 0]
  /\ rpc = "idle" /\ rgen = 0 /\ rnext = 1 /\ reads = 0
  /\ rsnap = [c \in Cells |-> 0]
  /\ rstrict = FALSE /\ raccepted = 0 /\ rbad = FALSE /\ rmid = FALSE /\ rlast = "none"

CallIdle ==
  /\ newVals = << >> /\ newName = "" /\ newDesc = 0 /\ newType = Int32Type /\ newRet = "none"
  /\ fnType = Int32Type /\ fnIn = NoVal /\ fnCompat = FALSE
  /\ fnOut = NoVal /\ fnOut2 = NoVal /\ fnPc = 0
  /\ unitA = NoUnit /\ unitB = NoUnit /\ encA = 0 /\ encB = 0

\* the values the constructors are called with
InitialValues == { Iface("int", W64(1)), Iface("float64", "1"), Iface("string", "a") }

\* NewPCPSingletonMetric (lines 411-427) or NewPCPInstanceMetric (lines
\* 499-531) has built the metric from a compatible value; the update
\* closures are nil, or have been installed at the start of the region
InitMetric ==
  \E k \in { "singleton", "instance" }, t \in MetricTypes, i \in InitialValues, u \in BOOLEAN :
    /\ IsCompatible(t, i)
    /\ kind = k /\ mt = t
    /\ IF k = "singleton"
         THEN /\ val = resolve(t, i) /\ update = u
              /\ vals = << >> /\ indom = {}
              /\ buf = [o \in { "val" } |-> resolve(t, i)]
         ELSE /\ val = NoVal /\ update = FALSE
              /\ indom = { "x", "y" }
              /\ vals = [n \in { "x", "y" } |-> [ val |-> resolve(t, i), update |-> u ]]
              /\ buf = [n \in { "x", "y" } |-> resolve(t, i)]
    /\ mu = Unlocked /\ hookCalls = 0 /\ ops = 0 /\ v0 = 0 /\ hookFailed = FALSE /\ call = [th \in Threads |-> Plain]
    /\ pc = [th \in Threads |-> "idle"]
    /\ arg = [th \in Threads |-> NoVal]
    /\ inst = [th \in Threads |-> NoName]
    /\ ret = [th \in Threads |-> Pending]

\* NewPCPMetric(val, name, indom, t, ...), src/unnamed/part_000:212-217:
\* any value with any type, nothing is tested
PCPMetricValues == { Iface("int", W64(1)), Iface("string", "a") }

PCPMetricTypes == { Int32Type, StringType }

PCPMetricInputs == { Iface("int", W64(1)), Iface("int", W64(2)), Iface("string", "a") }

InitPCPMetric ==
  \E t \in PCPMetricTypes, i \in PCPMetricValues :
    /\ kind = "pcpmetric" /\ mt = t
    /\ val = i /\ update = FALSE
    /\ vals = << >> /\ indom = {} /\ buf = << >>
    /\ mu = Unlocked /\ hookCalls = 0 /\ ops = 0 /\ v0 = 0 /\ hookFailed = FALSE /\ call = [th \in Threads |-> Plain]
    /\ pc = [th \in Threads |-> "idle"]
    /\ arg = [th \in Threads |-> NoVal]
    /\ inst = [th \in Threads |-> NoName]
    /\ ret = [th \in Threads |-> Pending]

Init == (InitMetric \/ InitPCPMetric) /\ IndomIdle /\ GenIdle /\ CallIdle

MetricNext ==
  \E th \in Threads :
    \/ ValRLock(th)
    \/ ValRead(th)
    \/ \E i \in Inputs : Set(th, i)
    \/ SetLock(th)
    \/ SetUpdate(th)
    \/ SetWriteVal(th)
    \/ SetCommit(th)
    \/ SetUnlock(th)
    \/ \E n \in InstNames : ValInstance(th, n)
    \/ ValInstanceRLock(th)
    \/ ValInstanceRead(th)
    \/ \E n \in InstNames, i \in Inputs : SetInstance(th, n, i)
    \/ SetInstanceLock(th)
    \/ SetInstanceUpdate(th)
    \/ SetInstanceWriteVal(th)
    \/ SetInstanceCommit(th)
    \/ SetInstanceUnlock(th)

PCPMetricNext ==
  \E th \in Threads :
    \/ PCPMetricVal(th)
    \/ PCPMetricValRead(th)
    \/ \E i \in PCPMetricInputs : PCPMetricSet(th, i)
    \/ PCPMetricSetLock(th)
    \/ PCPMetricSetStore(th)
    \/ PCPMetricSetUnlock(th)

Next == MetricNext \/ PCPMetricNext

Spec == Init /\ [][Next]_vars

\* NewPCPCounter(v0, name), lines 593-600; every caller is about to make one
\* call on the counter
InitialCounts == { 0, 7 }

InitCounter ==
  \E c \in InitialCounts, u \in BOOLEAN :
    /\ kind = "counter" /\ mt = Int64Type /\ v0 = c /\ hookFailed = FALSE /\ call = [th \in Threads |-> Plain]
    /\ val = Iface("int64", W64(c)) /\ update = u
    /\ vals = << >> /\ indom = {}
    /\ buf = [o \in { "val" } |-> Iface("int64", W64(c))]
    /\ mu = Unlocked /\ hookCalls = 0 /\ ops = 0
    /\ pc = [th \in Threads |-> "start"]
    /\ arg = [th \in Threads |-> NoVal]
    /\ inst = [th \in Threads |-> NoName]
    /\ ret = [th \in Threads |-> Pending]

CounterNext ==
  \E th \in Threads :
    \/ \E n \in Increments : Inc(th, n)
    \/ \E n \in Increments : MustInc(th, n)
    \/ \E n \in Increments : Dec(th, n)
    \/ \E n \in Increments : MustDec(th, n)
    \/ Up(th)
    \/ Down(th)
    \/ \E n \in InitialCounts : CounterSet(th, n)
    \/ CounterVal(th)
    \/ ValRead(th)
    \/ IncRLock(th)
    \/ IncRead(th)
    \/ IncSet(th)
    \/ MustErr(th)
    \/ SetLock(th)
    \/ SetUpdate(th)
    \/ SetWriteVal(th)
    \/ SetCommit(th)
    \/ SetUnlock(th)

CounterInit == InitCounter /\ IndomIdle /\ GenIdle /\ CallIdle

SpecCounter == CounterInit /\ [][CounterNext]_vars

(***************************************************************************)
(* Fair scheduling.  A goroutine that has entered a call and can take its  *)
(* next step is eventually scheduled; sync.RWMutex hands the lock to a     *)
(* waiting goroutine once it is released (a blocked Lock is woken by the   *)
(* Unlock / last RUnlock, a blocked RLock by the Unlock).  The callers of  *)
(* a metric make the calls of lines 430-576, those of a counter each make  *)
(* one Up (lines 613-637).                                                 *)
(***************************************************************************)
\* the steps a caller takes inside a call it has begun
Continue(th) ==
  \/ ValRead(th)
  \/ SetLock(th) \/ SetUpdate(th) \/ SetWriteVal(th) \/ SetCommit(th) \/ SetUnlock(th)
  \/ ValInstanceRLock(th) \/ ValInstanceRead(th)
  \/ SetInstanceLock(th) \/ SetInstanceUpdate(th) \/ SetInstanceWriteVal(th)
  \/ SetInstanceCommit(th) \/ SetInstanceUnlock(th)
  \/ MustSetSet(th) \/ MustSetInstanceSetInstance(th) \/ MustErr(th)
  \/ IncRLock(th) \/ IncRead(th) \/ IncSet(th)

\* the values the callers pass: equal to the stored value, different from
\* it, or of another type than the metric's
SmallInputs == { Iface("int", W64(1)), Iface("int", W64(2)), Iface("string", "b") }

SmallTypes == { Int32Type, StringType }

\* the values and instance names the callers of the fair specification
\* pass: a value to store and one of another type than the metric's, an
\* instance of the domain and a name that is none
FairInputs == { Iface("int", W64(2)), Iface("string", "b") }

FairNames == { "x", "z" }

\* a metric of type Int32Type or a counter created with 0; the update
\* closures are nil, as the constructors leave them, or installed
FairInit ==
  \/ /\ InitMetric /\ IndomIdle /\ GenIdle /\ CallIdle
     /\ mt = Int32Type
  \/ CounterInit /\ v0 = 0

FairNext ==
  \E th \in Threads :
    \/ ValRLock(th)
    \/ \E i \in FairInputs : Set(th, i)
    \/ \E n \in FairNames : ValInstance(th, n)
    \/ \E n \in FairNames, i \in FairInputs : SetInstance(th, n, i)
    \/ \E i \in FairInputs : MustSet(th, i)
    \/ \E n \in FairNames, i \in FairInputs : MustSetInstance(th, n, i)
    \/ Inc(th, 1)
    \/ Dec(th, 1)
    \/ Up(th)
    \/ Down(th)
    \/ Continue(th)

Fairness == \A th \in Threads : WF_vars(Continue(th))

SpecFair == FairInit /\ [][FairNext]_vars /\ Fairness

\* the values IsCompatible and resolve are called with: generic integers at
\* the edges of the 32-bit and 64-bit ranges, fixed-width integers, floats
\* within and beyond the float32 range, strings, and a value of no
\* accepted type
Values ==
  { Iface("int", W64(-1)), Iface("int", W64(0)), Iface("int", W64(1)),
    Iface("int", MaxInt32W), Iface("int", << 0, 0, HalfLimb, 0 >>),
    Iface("int", MinInt32W), Iface("int", << Limb - 1, Limb - 1, HalfLimb - 1, Limb - 1 >>),
    Iface("int", MaxUint32W), Iface("int", << 0, 1, 0, 0 >>),
    Iface("int", << HalfLimb - 1, Limb - 1, Limb - 1, Limb - 1 >>),
    Iface("int", << HalfLimb, 0, 0, 0 >>),
    Iface("uint", W64(0)), Iface("uint", W64(1)), Iface("uint", MaxInt32W),
    Iface("uint", << 0, 0, HalfLimb, 0 >>), Iface("uint", MaxUint32W),
    Iface("uint", << 0, 1, 0, 0 >>),
    Iface("uint", << HalfLimb, 0, 0, 0 >>),
    Iface("uint", << Limb - 1, Limb - 1, Limb - 1, Limb - 1 >>),
    Iface("int32", Low32(W64(1))), Iface("int32", Low32(W64(-1))),
    Iface("int64", W64(1)), Iface("uint32", Low32(MaxUint32W)), Iface("uint64", W64(1)),
    Iface("float32", "1"), Iface("float32", "NaN"),
    Iface("float64", "0"), Iface("float64", "1"), Iface("float64", "0.1"),
    Iface("float64", "1e39"), Iface("float64", "NaN"),
    Iface("string", "a"), Iface("string", ""), Iface("bool", "true") }

InitTypes ==
  /\ fnType \in MetricTypes /\ fnIn \in Values
  /\ fnCompat = FALSE /\ fnOut = NoVal /\ fnOut2 = NoVal /\ fnPc = 0
  /\ newVals = << >> /\ newName = "" /\ newDesc = 0 /\ newType = Int32Type /\ newRet = "none"
  /\ unitA = NoUnit /\ unitB = NoUnit /\ encA = 0 /\ encB = 0

\* fnType.IsCompatible(fnIn)
CallIsCompatible ==
  /\ fnPc = 0
  /\ fnCompat' = IsCompatible(fnType, fnIn)
  /\ fnPc' = 1
  /\ UNCHANGED << fnType, fnIn, fnOut, fnOut2 >>
  /\ UNCHANGED << newVals, newName, newDesc, newType, newRet, unitA, unitB, encA, encB >>
  /\ UNCHANGED << metricVars, indomVars, genVars >>

\* fnType.resolve(fnIn)
CallResolve ==
  /\ fnPc = 1
  /\ fnOut' = resolve(fnType, fnIn)
  /\ fnPc' = 2
  /\ UNCHANGED << fnType, fnIn, fnCompat, fnOut2 >>
  /\ UNCHANGED << newVals, newName, newDesc, newType, newRet, unitA, unitB, encA, encB >>
  /\ UNCHANGED << metricVars, indomVars, genVars >>

\* fnType.resolve of the resolved value
CallResolveAgain ==
  /\ fnPc = 2
  /\ fnOut2' = resolve(fnType, fnOut)
  /\ fnPc' = 3
  /\ UNCHANGED << fnType, fnIn, fnCompat, fnOut >>
  /\ UNCHANGED << newVals, newName, newDesc, newType, newRet, unitA, unitB, encA, encB >>
  /\ UNCHANGED << metricVars, indomVars, genVars >>

InitUnits ==
  /\ unitA \in Units /\ unitB \in Units /\ encA = 0 /\ encB = 0
  /\ fnType = Int32Type /\ fnIn = NoVal /\ fnCompat = FALSE
  /\ fnOut = NoVal /\ fnOut2 = NoVal /\ fnPc = 0
  /\ newVals = << >> /\ newName = "" /\ newDesc = 0 /\ newType = Int32Type /\ newRet = "none"

\* unitA.PMAPI()
CallPMAPI ==
  /\ unitA # NoUnit /\ fnPc = 0
  /\ encA' = PMAPI(unitA)
  /\ fnPc' = 1
  /\ UNCHANGED << unitA, unitB, encB >>
  /\ UNCHANGED << newVals, newName, newDesc, newType, newRet, fnType, fnIn, fnCompat, fnOut, fnOut2 >>
  /\ UNCHANGED << metricVars, indomVars, genVars >>

\* unitB.PMAPI()
CallPMAPIOther ==
  /\ unitB # NoUnit /\ fnPc = 1
  /\ encB' = PMAPI(unitB)
  /\ fnPc' = 2
  /\ UNCHANGED << unitA, unitB, encA >>
  /\ UNCHANGED << newVals, newName, newDesc, newType, newRet, fnType, fnIn, fnCompat, fnOut, fnOut2 >>
  /\ UNCHANGED << metricVars, indomVars, genVars >>

UnitsNext ==
  \/ CallPMAPI
  \/ CallPMAPIOther

UnitsInit == MetricIdle /\ IndomIdle /\ GenIdle /\ InitUnits

SpecUnits == UnitsInit /\ [][UnitsNext]_vars

TypesNext ==
  \/ CallIsCompatible
  \/ CallResolve
  \/ CallResolveAgain

TypesInit == MetricIdle /\ IndomIdle /\ GenIdle /\ InitTypes

SpecTypes == TypesInit /\ [][TypesNext]_vars

\* no metric yet; the domain a metric is about to be bound to
InitInstance ==
  \E d \in SUBSET { "x", "y" } :
    /\ kind = "none" /\ mt = Int32Type /\ val = NoVal /\ update = FALSE
    /\ vals = << >> /\ indom = d /\ mu = Unlocked /\ buf = << >>
    /\ hookCalls = 0 /\ ops = 0 /\ v0 = 0 /\ hookFailed = FALSE /\ call = [th \in Threads |-> Plain]
    /\ pc = [th \in Threads |-> "idle"]
    /\ arg = [th \in Threads |-> NoVal]
    /\ inst = [th \in Threads |-> NoName]
    /\ ret = [th \in Threads |-> Pending]

InstanceNext ==
  \/ /\ kind = "none" /\ newRet = "none"
     /\ \E vs \in InstancesMaps, name \in MetricNames, t \in MetricTypes, ndesc \in DescCounts :
          NewPCPInstanceMetric(vs, name, t, ndesc)
  \/ \E th \in Threads, n \in InstNames : ValInstance(th, n)
  \/ \E th \in Threads : ValInstanceRLock(th)
  \/ \E th \in Threads : ValInstanceRead(th)

InstanceInit == InitInstance /\ IndomIdle /\ GenIdle /\ CallIdle

SpecInstance == InstanceInit /\ [][InstanceNext]_vars

(***************************************************************************)
(* An instance metric and the domain it is bound to: the metric keeps the  *)
(* pointer to the domain (line 491 and 528), and AddInstance               *)
(* (src/unnamed/part_000:42-54) may be called on that domain before or     *)
(* after the metric is built.                                              *)
(***************************************************************************)
\* AddInstance(name) on the domain the metric is, or will be, bound to
AddInstanceBound(name) ==
  /\ nops < MaxIndomOps
  /\ nops' = nops + 1
  /\ IF \E n \in indom : getHash(n) = getHash(name)
       THEN /\ lastRet' = IndomResult("AddInstance", "DuplicateInstance", NoDom)
            /\ indom' = indom
       ELSE /\ indom' = indom \cup { name }
            /\ lastRet' = IndomResult("AddInstance", "nil", NoDom)
  /\ UNCHANGED << kind, mt, val, update, vals, mu, buf, hookCalls, pc, arg, inst, ret, ops, v0, hookFailed, call >>
  /\ UNCHANGED << made, instanceDomains, started, firstDom, panicked >>
  /\ UNCHANGED << genVars, callVars >>

\* the Instances maps and the values the callers of this specification pass
GrowMaps ==
  UNION { [S -> { Iface("int", W64(1)), Iface("string", "a") }] : S \in SUBSET InstNames }

\* an empty domain and no metric
InitGrow ==
  /\ kind = "none" /\ mt = Int32Type /\ val = NoVal /\ update = FALSE
  /\ vals = << >> /\ indom = {} /\ mu = Unlocked /\ buf = << >>
  /\ hookCalls = 0 /\ ops = 0 /\ v0 = 0 /\ hookFailed = FALSE /\ call = [th \in Threads |-> Plain]
  /\ pc = [th \in Threads |-> "idle"]
  /\ arg = [th \in Threads |-> NoVal]
  /\ inst = [th \in Threads |-> NoName]
  /\ ret = [th \in Threads |-> Pending]

GrowNext ==
  \/ \E n \in InstNames : AddInstanceBound(n)
  \/ /\ kind = "none" /\ newRet = "none"
     /\ \E vs \in GrowMaps, t \in SmallTypes : NewPCPInstanceMetric(vs, "m", t, 0)
  \/ \E th \in Threads, n \in InstNames : ValInstance(th, n)
  \/ \E th \in Threads : ValInstanceRLock(th)
  \/ \E th \in Threads : ValInstanceRead(th)
  \/ \E th \in Threads, n \in InstNames, i \in SmallInputs : SetInstance(th, n, i)
  \/ \E th \in Threads : SetInstanceLock(th)
  \/ \E th \in Threads : SetInstanceUpdate(th)
  \/ \E th \in Threads : SetInstanceCommit(th)
  \/ \E th \in Threads : SetInstanceUnlock(th)

GrowInit == InitGrow /\ IndomIdle /\ GenIdle /\ CallIdle

SpecGrow == GrowInit /\ [][GrowNext]_vars

IndomNext ==
  \/ MakeInstanceDomains
  \/ \E n \in Names, sh \in HelpTexts, lg \in HelpTexts : NewInstanceDomain(n, sh, lg)
  \/ \E d \in DOMAIN instanceDomains, n \in Names : AddInstance(d, n)
  \/ StartRegion

IndomInit == MetricIdle /\ IndomIdle /\ GenIdle /\ CallIdle

SpecIndom == IndomInit /\ [][IndomNext]_vars

InitGen ==
  /\ gen1 = 0 /\ gen2 = 0 /\ wpc = 0
  /\ cells = [c \in Cells |-> 0]
  /\ rpc = "idle" /\ rgen = 0 /\ rnext = 1 /\ reads = 0
  /\ rsnap = [c \in Cells |-> 0]
  /\ rstrict \in BOOLEAN /\ raccepted = 0 /\ rbad = FALSE /\ rmid = FALSE /\ rlast = "none"

GenNext ==
  \/ BuildBegin
  \/ BuildWrite
  \/ BuildEnd
  \/ ReadBegin
  \/ ReadBegin2
  \/ ReadCell
  \/ ReadEnd1
  \/ ReadEnd2

GenInit == MetricIdle /\ IndomIdle /\ InitGen /\ CallIdle

SpecGen == GenInit /\ [][GenNext]_vars

(***************************************************************************)
(* Properties.                                                             *)
(***************************************************************************)
\* a caller is between m.Lock() and the deferred m.Unlock()
InWriteSection(th) ==
  pc[th] \in { "Set_update", "Set_WriteVal", "Set_commit", "Set_Unlock",
               "SetInstance_update", "SetInstance_WriteVal",
               "SetInstance_commit", "SetInstance_Unlock" }

\* a caller is between m.RLock() and the deferred m.RUnlock()
InReadSection(th) == pc[th] \in { "Val_read", "ValInstance_read", "Inc_read" }

\* a caller has entered the update closure, or is about to, under the lock
InHook(th) ==
  pc[th] \in { "Set_update", "Set_WriteVal", "SetInstance_update", "SetInstance_WriteVal" }

\* the update closure of a caller's Set / SetInstance has failed
HookFailed(th) ==
  pc[th] \in { "Set_Unlock", "SetInstance_Unlock" } /\ ret[th].err = "WriteError"

\* two interface values hold the same dynamic type and the same bits
Identical(a, b) == a.k = b.k /\ a.v = b.v

\* C1: a counter created with v0 on which each of the N callers has called
\* Up() once, all calls having returned, holds v0 + N: no increment is lost.
C1_NoLostUpdate ==
  (\A th \in Threads : pc[th] = "idle" /\ call[th].delta = 1 /\ ret[th] = Ok)
    => val = Iface("int64", W64(v0 + NumThreads))

\* C2 as stated: a Set of a compatible value whose resolved value is the
\* stored value (the same type, the same bits) returns at once, without the
\* hook and without a change, however often it is repeated.
C2_IdenticalSetIsNoOp ==
  [][\A th \in Threads, i \in Inputs :
       (Set(th, i) /\ IsCompatible(mt, i) /\ Identical(resolve(mt, i), val))
         => (pc'[th] = "idle" /\ ret'[th] = Ok /\ hookCalls' = hookCalls /\ val' = val)]_vars

\* C2 amended: a Set of a compatible value whose resolved value compares
\* equal (Go's ==) to the stored value returns nil at once: the hook is not
\* called, the lock is not taken, the stored value and the buffer are
\* unchanged.  A floating-point NaN is not equal to itself.
C2_EqualSetIsNoOp ==
  [][\A th \in Threads, i \in Inputs :
       (Set(th, i) /\ IsCompatible(mt, i) /\ IfaceEq(resolve(mt, i), val))
         => (pc'[th] = "idle" /\ ret'[th] = Ok /\ hookCalls' = hookCalls
             /\ val' = val /\ buf' = buf /\ mu' = mu)]_vars

\* a Set of the stored value has returned nil on a metric with a hook
\* installed, and the hook has not been called
C2_Witness ==
  /\ kind = "singleton" /\ update /\ hookCalls = 0
  /\ \E th \in Threads : pc[th] = "idle" /\ ret[th] = Ok

\* C3: a Set of a value that is not compatible with the metric's type
\* returns the IncompatibleType error at once; the hook is not called and
\* the stored value, the buffer and the lock are as before.
C3_IncompatibleSetRejected ==
  [][\A th \in Threads, i \in Inputs :
       (Set(th, i) /\ ~IsCompatible(mt, i))
         => (pc'[th] = "idle" /\ ret'[th] = Result("IncompatibleType", NoVal)
             /\ hookCalls' = hookCalls /\ val' = val /\ buf' = buf /\ mu' = mu)]_vars

C3_Witness ==
  /\ kind = "singleton" /\ update
  /\ \E th \in Threads : pc[th] = "idle" /\ ret[th].err = "IncompatibleType"

\* C4: while a caller is in the update closure, and from the failure of the
\* closure to the return of the call, no step changes the stored value(s);
\* the call whose closure failed returns the closure's error.
C4_HookFailureKeepsValue ==
  [][\A th \in Threads :
       /\ (InHook(th) \/ HookFailed(th)) => (val' = val /\ vals' = vals)
       /\ (HookFailed(th) /\ pc'[th] # pc[th])
            => (pc'[th] = "idle" /\ ret'[th] = Result("WriteError", NoVal))]_vars

\* a Set and a SetInstance have returned the closure's error
C4_Witness ==
  \E th \in Threads : pc[th] = "idle" /\ ret[th].err = "WriteError" /\ hookCalls > 0

\* C5: at most one caller is between Lock and Unlock of a metric, and no
\* caller is between RLock and RUnlock while one is.
C5_MutualExclusion ==
  \A a, b \in Threads :
    /\ (InWriteSection(a) /\ InWriteSection(b)) => a = b
    /\ ~(InWriteSection(a) /\ InReadSection(b))

\* a writer is inside the closure while another writer waits for the lock
C5_Witness ==
  \E a, b \in Threads :
    /\ pc[a] \in { "Set_WriteVal", "SetInstance_WriteVal" }
    /\ pc[b] \in { "Set_Lock", "SetInstance_Lock", "ValInstance_RLock" }

\* C6: whenever the structural cells are partially rewritten, and whenever
\* the writer is between its increment of gen1 and its assignment of gen2,
\* gen1 # gen2; when no build is in progress gen1 = gen2 and every cell is
\* of build gen1.
C6_GenerationsBracketBuild ==
  /\ (\E c, d \in Cells : cells[c] # cells[d]) => gen1 # gen2
  /\ wpc # 0 => gen1 # gen2
  /\ wpc = 0 => (gen1 = gen2 /\ \A c \in Cells : cells[c] = gen1)

\* the second build has rewritten the first cell and not yet the second
C6_Witness == gen1 = 2 /\ cells[1] = 2 /\ cells[2] = 1

\* the reader's last read has ended and held a cell it read after gen1 was
\* incremented and before gen2 was updated
TookMidBuild == rpc = "idle" /\ rmid

\* the writer can always take its next step, whatever the reader does
WriterNeverWaits ==
  /\ wpc # 0 => ENABLED (BuildWrite \/ BuildEnd)
  /\ (wpc = 0 /\ gen1 < MaxBuilds) => ENABLED BuildBegin

\* C7 as stated: a reader that caches gen1 at the start of its read and
\* discards what it read when it then sees gen1 # gen2 or a gen1 other than
\* the cached one never accepts a snapshot that mixes builds and discards
\* every snapshot taken between the increment of gen1 and the update of
\* gen2; the writer never waits for it.
C7_ReaderNeverAcceptsMixedSnapshot ==
  /\ ~rbad
  /\ TookMidBuild => rlast = "discarded"
  /\ WriterNeverWaits

\* C7 amended: a reader that also finds gen2 equal to the cached gen1 before
\* it reads the first cell never accepts a snapshot that mixes builds and
\* discards every snapshot a cell of which it read between the increment of
\* gen1 and the update of gen2; the writer never waits for the reader.
C7_StrictReaderNeverAcceptsMixedSnapshot ==
  /\ rstrict => ~rbad
  /\ (rstrict /\ TookMidBuild) => rlast = "discarded"
  /\ WriterNeverWaits

\* a strict reader has accepted a snapshot and then discarded one a cell of
\* which it read while the second build was in progress
C7_Witness ==
  /\ rstrict /\ raccepted = 1 /\ reads = 2
  /\ TookMidBuild /\ rlast = "discarded" /\ rgen = 1 /\ gen1 = 2

\* C8: once the region has been started every NewInstanceDomain and every
\* AddInstance is rejected with AlreadyStarted and changes no domain.
C8_NoRegistrationAfterStart ==
  [][(started /\ nops' = nops + 1 /\ lastRet'.op \in { "NewInstanceDomain", "AddInstance" })
       => (lastRet'.err = "AlreadyStarted" /\ instanceDomains' = instanceDomains)]_vars

\* every entry of the table is the one domain of its name, and every name
\* passed to NewInstanceDomain has its entry, under the id of the name
OneDomainPerName ==
  /\ \A h \in DOMAIN instanceDomains :
       /\ instanceDomains[h].id = h
       /\ getHash(instanceDomains[h].name) = h
  /\ \A n \in Names :
       firstDom[n] # NoDom =>
         /\ firstDom[n] = getHash(n)
         /\ firstDom[n] \in DOMAIN instanceDomains

\* C9: a NewInstanceDomain with a name passed before returns the domain the
\* first call with that name returned and changes nothing of the table (id,
\* instances, help texts); the table holds one domain per created name.
C9_NewInstanceDomainIdempotent ==
  [][/\ \A n \in Names, sh \in HelpTexts, lg \in HelpTexts :
          (NewInstanceDomain(n, sh, lg) /\ firstDom[n] # NoDom)
            => (lastRet' = IndomResult("NewInstanceDomain", "nil", firstDom[n])
                /\ instanceDomains' = instanceDomains)
     /\ OneDomainPerName']_vars

\* NewInstanceDomain has returned a domain that already holds an instance
C9_Witness ==
  \E h \in DOMAIN instanceDomains :
    /\ lastRet = IndomResult("NewInstanceDomain", "nil", h)
    /\ DOMAIN instanceDomains[h].instances # {}

\* C10: AddInstance fails with DuplicateInstance and changes nothing when
\* the name's id is in the domain; otherwise it adds the one instance of
\* that id, name and owning domain and changes nothing else; no step removes
\* a domain or an instance.
C10_AddInstance ==
  [][/\ \A d \in DOMAIN instanceDomains, n \in Names :
          AddInstance(d, n) =>
            LET h   == getHash(n)
                old == instanceDomains[d].instances
                new == instanceDomains'[d].instances
            IN  IF h \in DOMAIN old
                  THEN /\ lastRet' = IndomResult("AddInstance", "DuplicateInstance", d)
                       /\ instanceDomains' = instanceDomains
                  ELSE /\ lastRet' = IndomResult("AddInstance", "nil", d)
                       /\ DOMAIN new = DOMAIN old \cup {h}
                       /\ new[h] = [ id |-> h, name |-> n, indom |-> d ]
                       /\ \A k \in DOMAIN old : new[k] = old[k]
                       /\ instanceDomains' = [instanceDomains EXCEPT ![d].instances = new]
     /\ \A d \in DOMAIN instanceDomains :
          /\ d \in DOMAIN instanceDomains'
          /\ DOMAIN instanceDomains[d].instances \subseteq DOMAIN instanceDomains'[d].instances]_vars

\* an AddInstance has failed on a domain that holds an instance
C10_Witness ==
  \E d \in DOMAIN instanceDomains :
    /\ lastRet = IndomResult("AddInstance", "DuplicateInstance", d)
    /\ DOMAIN instanceDomains[d].instances # {}

\* C11 as stated: NewPCPInstanceMetric with a value map that lacks a name of
\* the bound domain fails with MissingInstanceValue and creates no metric.
C11_MissingNameIsMissingInstanceValue ==
  (newRet # "none" /\ NotInitialized(newVals) # {})
    => (newRet = "MissingInstanceValue" /\ kind = "none")

\* C11 amended: such a call fails and creates no metric; the error is
\* InstanceCountMismatch when the map's size is not the domain's instance
\* count, otherwise the error of the metric's description (EmptyName,
\* NameTooLong, TooManyDescriptions) when the name or the descriptions are
\* rejected, otherwise MissingInstanceValue or, when the map also holds an
\* incompatible value for a name of the domain, IncompatibleType.
C11_MissingNameFails ==
  (newRet # "none" /\ NotInitialized(newVals) # {})
    => /\ kind = "none" /\ vals = << >>
       /\ IF Cardinality(DOMAIN newVals) # Cardinality(indom)
            THEN newRet = "InstanceCountMismatch"
            ELSE IF newName = ""
              THEN newRet = "EmptyName"
            ELSE IF Len(newName) > StringLength
              THEN newRet = "NameTooLong"
            ELSE IF newDesc > 2
              THEN newRet = "TooManyDescriptions"
            ELSE IF Incompatible(newVals, newType) = {}
              THEN newRet = "MissingInstanceValue"
              ELSE newRet \in { "MissingInstanceValue", "IncompatibleType" }

\* a call has failed with MissingInstanceValue on a domain of two instances
\* and another, with an empty name, has not reached the missing value
C11_Witness ==
  /\ kind = "none" /\ Cardinality(indom) = 2 /\ NotInitialized(newVals) # {}
  /\ newRet = "MissingInstanceValue" /\ newName = "m" /\ newDesc = 2

\* the fixed-width representation of each MetricType
ExactKind(t) ==
  CASE t = Int32Type  -> "int32"
    [] t = Uint32Type -> "uint32"
    [] t = Int64Type  -> "int64"
    [] t = Uint64Type -> "uint64"
    [] t = FloatType  -> "float32"
    [] t = DoubleType -> "float64"
    [] t = StringType -> "string"

\* the case of C12: a call has returned that was given exactly one
\* compatible value per instance of the bound domain
OneValuePerInstance ==
  newRet' # "none" /\ DOMAIN newVals' = indom /\ Incompatible(newVals', newType') = {}

\* what C12 says of such a call and of the reads after it
StoresResolved ==
  /\ newRet' = "nil" /\ kind' = "instance" /\ mt' = newType'
  /\ DOMAIN vals' = indom
  /\ \A n \in indom :
       /\ vals'[n].val = resolve(newType', newVals'[n])
       /\ vals'[n].val.k = ExactKind(newType')

ReadsResolved ==
  \A th \in Threads :
    ValInstanceRead(th)
      => /\ inst[th] \in indom
         /\ ret'[th] = Result("nil", resolve(newType, newVals[inst[th]]))

\* C12 as stated: NewPCPInstanceMetric with exactly one compatible value
\* per instance of the bound domain succeeds and stores, for every instance,
\* the value resolved to the metric's type; every ValInstance(name) after it
\* returns that value.
C12_NewInstanceMetricStoresResolved ==
  [][(OneValuePerInstance => StoresResolved) /\ ReadsResolved]_vars

\* C12 amended: such a call succeeds when its metric name is not empty and
\* not longer than StringLength and it is given at most two description
\* strings, and then stores, for every instance, the value resolved to the
\* metric's type, in the type's fixed-width representation, which every
\* ValInstance(name) after it returns; with another name or more
\* descriptions it fails with the error of the description and creates no
\* metric.
C12_ValidNewInstanceMetricStoresResolved ==
  [][/\ OneValuePerInstance
          => IF newPCPMetricDesc(newName', newDesc') = "nil"
               THEN StoresResolved
               ELSE /\ newRet' = newPCPMetricDesc(newName', newDesc')
                    /\ newRet' \in { "EmptyName", "NameTooLong", "TooManyDescriptions" }
                    /\ kind' = "none" /\ vals' = << >>
     /\ ReadsResolved]_vars

\* ValInstance has returned the 32-bit 1 of an Int32Type metric created,
\* with a name and two descriptions, from the generic integer 1
C12_Witness ==
  /\ newRet = "nil" /\ kind = "instance" /\ mt = Int32Type /\ indom = { "x", "y" }
  /\ newName = "m" /\ newDesc = 2
  /\ \E n \in indom : newVals[n] = Iface("int", W64(1))
  /\ \E th \in Threads : pc[th] = "idle" /\ ret[th] = Result("nil", Iface("int32", Low32(W64(1))))

\* C13: ValInstance(name) and SetInstance(name, v) with a compatible v
\* return UnknownInstance when name is not an instance of the bound domain;
\* the call invokes no update hook, takes no lock and changes no stored
\* value and nothing of the mapped buffer.
C13_UnknownInstanceRejected ==
  [][\A th \in Threads :
       (kind = "instance" /\ pc[th] = "idle" /\ ops' # ops) =>
         \A n \in InstNames \ indom :
           /\ ValInstance(th, n)
                => /\ pc'[th] = "idle" /\ ret'[th] = Result("UnknownInstance", NoVal)
                   /\ hookCalls' = hookCalls /\ vals' = vals /\ buf' = buf /\ mu' = mu
           /\ \A i \in { v \in Inputs : IsCompatible(mt, v) } :
                SetInstance(th, n, i)
                  => /\ pc'[th] = "idle" /\ ret'[th] = Result("UnknownInstance", NoVal)
                     /\ hookCalls' = hookCalls /\ vals' = vals /\ buf' = buf /\ mu' = mu]_vars

\* a call on an instance metric with update hooks has returned
\* UnknownInstance while another caller is inside SetInstance
C13_Witness ==
  /\ kind = "instance" /\ \A n \in indom : vals[n].update
  /\ \E a, b \in Threads :
       /\ pc[a] = "idle" /\ ret[a].err = "UnknownInstance"
       /\ pc[b] \in { "SetInstance_WriteVal", "SetInstance_commit" }

\* C14 as stated: for every MetricType t and every value v, compatible with
\* t or not, t.IsCompatible(v) = t.IsCompatible(t.resolve(v)).
C14_ResolvePreservesCompatibility ==
  fnPc >= 2 => (fnCompat = IsCompatible(fnType, fnOut))

\* C14 amended: for every v compatible with t, t.resolve(v) is compatible
\* with t and has t's fixed-width representation; an incompatible v of a
\* kind resolve does not convert stays as it is, and incompatible.
C14_ResolveKeepsCompatible ==
  fnPc >= 2 =>
    /\ fnCompat => (IsCompatible(fnType, fnOut) /\ fnOut.k = ExactKind(fnType))
    /\ (~fnCompat /\ fnIn.k \notin { "int", "uint", "float64" })
         => (fnOut = fnIn /\ ~IsCompatible(fnType, fnOut))

\* the generic integer 2^32 - 1, compatible with Uint32Type, has been
\* resolved to its 32-bit representation
C14_Witness ==
  /\ fnPc >= 2 /\ fnCompat /\ fnType = Uint32Type
  /\ fnIn = Iface("int", MaxUint32W) /\ fnOut = Iface("uint32", Low32(MaxUint32W))

\* C18: t.resolve(t.resolve(v)) is t.resolve(v), of the same dynamic type
\* and the same bits, for every t and v; a value that has the fixed-width
\* representation of t resolves to itself.
C18_ResolveIdempotent ==
  /\ fnPc = 3 => Identical(fnOut2, fnOut)
  /\ (fnPc >= 2 /\ fnIn.k = ExactKind(fnType)) => Identical(fnOut, fnIn)

\* the generic integer -1 has been resolved twice to the uint32 2^32 - 1
C18_Witness ==
  /\ fnPc = 3 /\ fnType = Uint32Type /\ fnIn = Iface("int", W64(-1))
  /\ fnOut2 = Iface("uint32", Low32(MaxUint32W))

\* the numeric value of a generic integer lies in the representable range of
\* an integer MetricType: a signed word for int, an unsigned word for uint
InRange(t, v) ==
  IF v.k = "int"
    THEN CASE t = Int32Type  -> LeS(MinInt32W, v.v) /\ LeS(v.v, MaxInt32W)
           [] t = Int64Type  -> TRUE
           [] t = Uint32Type -> ~IsNegW(v.v) /\ LeU(v.v, MaxUint32W)
           [] t = Uint64Type -> ~IsNegW(v.v)
           [] OTHER          -> FALSE
    ELSE CASE t = Int32Type  -> LeU(v.v, MaxInt32W)
           [] t = Int64Type  -> ~IsNegW(v.v)
           [] t = Uint32Type -> LeU(v.v, MaxUint32W)
           [] t = Uint64Type -> TRUE
           [] OTHER          -> FALSE

\* C20 as stated: an int or a uint is compatible with a MetricType exactly
\* when the type is an integer type whose range holds the numeric value.
C20_GenericIntegerCompatibleIffInRange ==
  (fnPc >= 1 /\ fnIn.k \in { "int", "uint" }) => (fnCompat = InRange(fnType, fnIn))

\* C20 amended: an int is compatible exactly with the integer types whose
\* range holds its value; a uint exactly with the unsigned integer types
\* whose range holds its value, never with Int32Type or Int64Type; neither
\* is compatible with FloatType, DoubleType or StringType.
C20_GenericIntegerCompatibility ==
  (fnPc >= 1 /\ fnIn.k \in { "int", "uint" }) =>
    (fnCompat = (/\ InRange(fnType, fnIn)
                 /\ fnIn.k = "uint" => fnType \in { Uint32Type, Uint64Type }))

\* the uint 2^32 has been found compatible with Uint64Type
C20_Witness ==
  fnPc >= 1 /\ fnCompat /\ fnType = Uint64Type /\ fnIn = Iface("uint", << 0, 1, 0, 0 >>)

\* the dimension bits (20 and above) and the scale bits (below 20) of an
\* encoding
DimensionBits(enc) == enc \div 2 ^ 20

ScaleBits(enc) == enc % 2 ^ 20

\* C15: the encodings of two distinct units differ, across the families and
\* within a family; units of different families differ in their dimension
\* bits, and the scale of a unit is held by bits that no dimension tag uses.
C15_UnitEncodingsDistinct ==
  fnPc = 2 =>
    /\ unitA # unitB => encA # encB
    /\ unitA.family # unitB.family => DimensionBits(encA) # DimensionBits(encB)
    /\ unitA.family = unitB.family => DimensionBits(encA) = DimensionBits(encB)
    /\ (unitA.family = unitB.family /\ unitA # unitB) => ScaleBits(encA) # ScaleBits(encB)
    /\ encA < 2 ^ 30 /\ encB < 2 ^ 30

\* ByteUnit and NanosecondUnit, both first of their family, have been
\* encoded
C15_Witness ==
  /\ fnPc = 2 /\ unitA = ByteUnit /\ unitB = NanosecondUnit
  /\ encA = 2 ^ 28 /\ encB = 2 ^ 24

\* a caller has compared its value with the stored one (lines 445, 561,
\* and line 228 of src/unnamed/part_000), found them different, and not yet
\* stored its own
ComparedNotCommitted(th) ==
  pc[th] \in { "Set_Lock", "Set_update", "Set_WriteVal", "Set_commit",
               "SetInstance_Lock", "SetInstance_update", "SetInstance_WriteVal",
               "SetInstance_commit", "PCPMetricSet_Lock", "PCPMetricSet_store" }

\* C16: the update hook is never invoked with a value equal to the value
\* stored at the moment of the invocation, and no other writer stores a
\* value between a writer's comparison and its own store.
C16_CompareInsideCriticalSection ==
  [][\A th \in Threads :
       /\ (SetUpdate(th) /\ update) => ~IfaceEq(arg[th], val)
       /\ (SetInstanceUpdate(th) /\ vals[inst[th]].update)
            => ~IfaceEq(arg[th], vals[inst[th]].val)
       /\ \A other \in Threads \ {th} :
            (ComparedNotCommitted(th)
               /\ (SetCommit(other) \/ SetInstanceCommit(other) \/ PCPMetricSetStore(other)))
              => (inst[th] # inst[other])]_vars

\* the positions of a caller inside SetInstance, after its checks
SetInstancePcs ==
  { "SetInstance_Lock", "SetInstance_update", "SetInstance_WriteVal",
    "SetInstance_commit", "SetInstance_Unlock" }

\* C17: a SetInstance(name, v) changes the stored value and the mapped slot
\* of no other instance than name, and neither the metric's type, its bound
\* domain, the key set of its value map nor any slot's hook; it enters the
\* update hook only for the slot of name, and at most once in a call.  (The
\* checks a call begins with, lines 551-561, change nothing at all.)
C17_SetInstanceChangesOneSlot ==
  [][/\ (kind = "instance" /\ ops' # ops)
          => (vals' = vals /\ buf' = buf /\ hookCalls' = hookCalls
              /\ kind' = kind /\ mt' = mt /\ indom' = indom)
     /\ \A th \in Threads :
          /\ (pc[th] \in SetInstancePcs /\ pc'[th] # pc[th]) =>
               /\ kind' = kind /\ mt' = mt /\ indom' = indom /\ val' = val
               /\ DOMAIN vals' = DOMAIN vals /\ DOMAIN buf' = DOMAIN buf
               /\ \A n \in DOMAIN vals :
                    /\ vals'[n].update = vals[n].update
                    /\ n # inst[th] => (vals'[n] = vals[n] /\ buf'[n] = buf[n])
               /\ hookCalls' \in { hookCalls, hookCalls + 1 }
               /\ hookCalls' = hookCalls + 1
                    => (pc[th] = "SetInstance_update" /\ pc'[th] = "SetInstance_WriteVal")
          /\ (pc'[th] = "SetInstance_update" /\ pc[th] # pc'[th]) => pc[th] = "SetInstance_Lock"
          /\ (pc'[th] = "SetInstance_Lock" /\ pc[th] # pc'[th]) => pc[th] = "idle"]_vars

\* a SetInstance has succeeded through the hook of one slot: the two
\* instances, created with the same value, now differ
C17_Witness ==
  /\ kind = "instance" /\ hookCalls = 1
  /\ vals["x"].val # vals["y"].val
  /\ \E th \in Threads : pc[th] = "idle" /\ ret[th] = Ok

\* the in-memory value of the metric whose mapped slot is o
Stored(o) == IF kind = "singleton" THEN val ELSE vals[o].val

\* the metric whose mapped slot is o has its update hook
Hooked(o) == IF kind = "singleton" THEN update ELSE vals[o].update

\* a caller is inside the exclusive section of a Set / SetInstance on the
\* metric whose mapped slot is o
Writing(th, o) == InWriteSection(th) /\ (kind = "singleton" \/ inst[th] = o)

\* C19: while a Set is in progress on a metric with an update hook, and no
\* hook call has failed, the metric's slot of the mapped region holds the
\* value published before the Set or the value being set, never anything
\* else, whatever the metric's type.
C19_ReaderSeesOldOrNew ==
  \A o \in DOMAIN buf, th \in Threads :
    (Hooked(o) /\ Writing(th, o) /\ \A c \in Threads : ret[c].err # "WriteError")
      => (buf[o] = Stored(o) \/ buf[o] = arg[th])

\* a caller is in no call: it has not begun one, its call has returned, or
\* it has panicked and the application has recovered the panic
Returned(th) == pc[th] \in { "start", "idle", "panic" }

\* the process has been ended by a panic that was not recovered
Exited == \E th \in Threads : pc[th] = "exit"

\* a caller holds the metric's lock, as writer or as reader
HoldsLock(th) == mu.w = th \/ th \in mu.r

C22_ValueSlotsMatchDomain ==
  kind = "instance" => (DOMAIN vals = indom /\ \A th \in Threads : pc[th] # "panic")

\* the positions of a caller inside Set, after its checks
SetPcs == { "Set_Lock", "Set_update", "Set_WriteVal", "Set_commit", "Set_Unlock" }

\* a Set or SetInstance is in progress on the metric
SetInProgress == \E th \in Threads : pc[th] \in SetPcs \cup SetInstancePcs

\* the offset a caller's update closure was made for (line 386)
OwnOffset(th) == IF kind = "singleton" THEN "val" ELSE inst[th]

\* C23: on a metric with its update hook installed, whenever no Set is in
\* progress and no hook call has failed, the value at the metric's offset
\* of the mapped region is the in-memory value Val returns, in every
\* interleaving of concurrent Set calls; a step of a Set writes the region
\* at the caller's own offset only, and only inside the hook, and leaves
\* the generation counters and the structural part of the region alone.
C23_WriteThroughConsistency ==
  /\ [](\A o \in DOMAIN buf :
          (Hooked(o) /\ ~SetInProgress /\ ~hookFailed) => buf[o] = Stored(o))
  /\ [][\A th \in Threads :
          (pc[th] \in SetPcs \cup SetInstancePcs /\ pc'[th] # pc[th]) =>
            /\ gen1' = gen1 /\ gen2' = gen2 /\ cells' = cells
            /\ DOMAIN buf' = DOMAIN buf
            /\ \A o \in DOMAIN buf : o # OwnOffset(th) => buf'[o] = buf[o]
            /\ buf' # buf => (Hooked(OwnOffset(th)) /\ InHook(th))]_vars

\* two concurrent Sets of different values have both gone through the hook
\* and returned: no Set is in progress and the slot holds a value other
\* than the one the metric was created with
C23_Witness ==
  /\ \E o \in DOMAIN buf : Hooked(o) /\ buf[o] = Stored(o)
  /\ ~SetInProgress /\ ~hookFailed
  /\ hookCalls = 2
  /\ \A th \in Threads : pc[th] = "idle" /\ ret[th] = Ok

====
